-------------------------- MODULE PublicSiteProofs --------------------------
(***************************************************************************)
(* The public site.  Part 1, its publications, for any number of models,   *)
(* prices, requests, servers and edits: what Root reviewed is what its     *)
(* request publishes, once; the pair stands; strikes are earned.  Part 2,  *)
(* its render jobs, for any number of workers, publications, attempts and  *)
(* announcements: what was told stays served, and a healthy site serves    *)
(* the current generation.                                                 *)
(***************************************************************************)
EXTENDS PublicPublication, PublicRender, FiniteSetTheorems, SequenceTheorems, WellFoundedInduction, TLAPS

(***************************************************************************)
(* Part 1: publications                                                    *)
(***************************************************************************)

Row == [status : {"none", "draft", "active", "inactive", "deleted"}, price : 0..MaxPrice, strikes : Nat, checked : Nat,
        removed : BOOLEAN]

ContentType == [rev : Nat, body : Bodies, reviewed : BOOLEAN, featured : SUBSET Listed,
                news : [News \cup Questions -> {"none", "shown", "hidden", "gone"}]]

Item == [price : 0..MaxPrice, checked : Nat]
ItemsType == UNION {[S -> Item] : S \in SUBSET Listed}

Authors == Posts \cup {NoAuthor}
Snapshot == [items : ItemsType, by : Authors]
Release == [price : Nat, body : Bodies, featured : SUBSET Listed, news : SUBSET (News \cup Questions), by : Authors]

Seen == (SUBSET (Listed \X (0..MaxPrice))) \cup Bodies
            \cup [body : Bodies, featured : SUBSET Listed, news : SUBSET (News \cup Questions)]

Ask == {"none", "prices", "restorePrices", "content", "restoreContent"}
Request == [op : Ask, expected : Nat, source : Nat, seen : Seen, made : Nat, bound : ItemsType \cup {{}},
            answer : {"none", "made", "refused"}]

Watch == [at : {"idle", "fetch", "observed", "remove", "done"}, time : Nat, absent : SUBSET Listed]

PublicTypes ==
    /\ model \in [Listed -> Row] /\ priceRev \in Nat /\ content \in ContentType
    /\ snapshots \in Seq(Snapshot) /\ releases \in Seq(Release)
    /\ current \in [price : 0..Len(snapshots), content : 0..Len(releases)]
    /\ current.content # 0 => current.price # 0
    /\ post \in [Posts -> Request]
    /\ looked \in Nat /\ seenAt \in [Listed -> Nat] /\ monitor \in [Monitors -> Watch]
    /\ lease \in [owner : Monitors \cup {NoAuthor}, until : {"ahead", "edge", "past"}] /\ intent \in BOOLEAN
    /\ missed \in [Listed -> Nat] /\ budget \in Budgets

\* Whoever is named on what was published has a request that made it, and is named once.
Authored ==
    /\ \A p \in Posts : post[p].op = "none" => post[p].made = 0
    /\ \A s \in DOMAIN snapshots : snapshots[s].by \in Posts => post[snapshots[s].by].made # 0
    /\ \A r \in DOMAIN releases : releases[r].by \in Posts => post[releases[r].by].made # 0
    /\ \A s, t \in DOMAIN snapshots : snapshots[s].by \in Posts /\ snapshots[s].by = snapshots[t].by => s = t
    /\ \A r, q \in DOMAIN releases : releases[r].by \in Posts /\ releases[r].by = releases[q].by => r = q

ContentSeen == [body |-> content.body, featured |-> content.featured, news |-> Shown]

\* A request that is still to commit saw what its revision names.
Foreseen(p) ==
    LET q == post[p] IN
    /\ q.op = "prices" => /\ q.expected <= priceRev
                          /\ q.made = 0 /\ q.expected = priceRev => q.seen = PricesOf(Draft)
    /\ q.op = "restorePrices" => q.source \in DOMAIN snapshots /\ q.seen = PricesOf(snapshots[q.source].items)
    /\ q.op = "content" => /\ q.expected <= content.rev
                           /\ q.made = 0 /\ q.expected = content.rev => q.seen = ContentSeen
    /\ q.op = "restoreContent" => q.source \in DOMAIN releases /\ q.seen = releases[q.source].body

\* One that has committed published what it saw.
Fulfilled(p) ==
    LET q == post[p] IN
    q.made # 0 =>
        /\ q.op \in {"prices", "restorePrices"} =>
             q.made \in DOMAIN snapshots /\ PricesOf(snapshots[q.made].items) = q.seen
        /\ q.op \in {"content", "restoreContent"} => q.made \in DOMAIN releases
        /\ q.op = "content" =>
             LET r == releases[q.made] IN
             [body |-> r.body, featured |-> r.featured, news |-> r.news] = q.seen /\ r.price = q.source
        /\ q.op = "restoreContent" => releases[q.made].body = q.seen

\* What is published is clean, the pair fits, and what was taken out is inactive and awaits its publication.
Sound ==
    /\ \A r \in DOMAIN releases : Sanitary(releases[r].body)
    /\ current.content # 0 => releases[current.content].price = current.price /\ Fits(current.content, Items)
    /\ \A m \in Active : ~model[m].removed
    /\ \A m \in DOMAIN Items : model[m].removed => intent

\* Strikes are absences in a row, as long as a model can be removed.
Counted ==
    \A m \in Listed : /\ model[m].status = "none" => model[m].strikes = 0
                      /\ Exists(m) => model[m].strikes <= missed[m]

\* Every check time is of an observation made; the holder of the lease observed later than all of them.
CheckedBy(m, t) == model[m].checked <= t /\ seenAt[m] <= t
                    /\ \A s \in DOMAIN snapshots : m \in DOMAIN snapshots[s].items => snapshots[s].items[m].checked <= t

Checked ==
    /\ \A m \in Listed : CheckedBy(m, looked)
    /\ \A w \in Monitors : /\ monitor[w].time <= looked
                           /\ lease.owner = w /\ monitor[w].at = "observed"
                                => monitor[w].time # 0 /\ \A m \in Listed : CheckedBy(m, monitor[w].time - 1)

PublicInv == PublicTypes /\ Authored /\ (\A p \in Posts : Foreseen(p) /\ Fulfilled(p)) /\ Sound /\ Counted /\ Checked

----------------------------------------------------------------------------
(* Sequences of what was published *)

LEMMA Appended ==
    ASSUME NEW S, NEW q \in Seq(S), NEW e \in S, NEW t, t = Append(q, e)
    PROVE  /\ t \in Seq(S) /\ Len(q) \in Nat /\ Len(t) = Len(q) + 1
           /\ DOMAIN q = 1..Len(q) /\ DOMAIN t = 1..(Len(q) + 1)
           /\ t[Len(q) + 1] = e /\ e \in S
           /\ \A i \in DOMAIN q : t[i] = q[i] /\ i \in DOMAIN t
           /\ \A i \in DOMAIN t : i \in DOMAIN q \/ i = Len(q) + 1
<1>1. /\ t \in Seq(S) /\ Len(t) = Len(q) + 1 /\ t[Len(q) + 1] = e
      /\ \A i \in 1..Len(q) : t[i] = q[i]
  BY AppendProperties
<1>2. Len(q) \in Nat /\ DOMAIN q = 1..Len(q) /\ DOMAIN t = 1..Len(t)
  BY <1>1, LenProperties
<1> QED BY <1>1, <1>2

\* What is known of the types, spelt out.
LEMMA PublicFacts ==
    ASSUME PublicTypes
    PROVE  /\ DOMAIN snapshots = 1..Len(snapshots) /\ Len(snapshots) \in Nat
           /\ DOMAIN releases = 1..Len(releases) /\ Len(releases) \in Nat
           /\ \A s \in DOMAIN snapshots : snapshots[s] \in Snapshot
           /\ \A r \in DOMAIN releases : releases[r] \in Release
           /\ current.price \in Nat /\ current.content \in Nat
           /\ current.price # 0 => current.price \in DOMAIN snapshots
           /\ current.content # 0 => current.content \in DOMAIN releases /\ current.price # 0
           /\ \A p \in Posts : post[p] \in Request
           /\ \A m \in Listed : model[m] \in Row
           /\ \A w \in Monitors : monitor[w] \in Watch
<1>1. /\ snapshots \in Seq(Snapshot) /\ releases \in Seq(Release)
      /\ current \in [price : 0..Len(snapshots), content : 0..Len(releases)]
      /\ current.content # 0 => current.price # 0
  BY DEF PublicTypes
<1>2. /\ DOMAIN snapshots = 1..Len(snapshots) /\ Len(snapshots) \in Nat
      /\ DOMAIN releases = 1..Len(releases) /\ Len(releases) \in Nat
  BY <1>1, LenProperties
<1>3. /\ \A s \in DOMAIN snapshots : snapshots[s] \in Snapshot
      /\ \A r \in DOMAIN releases : releases[r] \in Release
  BY <1>1, <1>2, ElementOfSeq
<1>4. /\ \A p \in Posts : post[p] \in Request
      /\ \A m \in Listed : model[m] \in Row
      /\ \A w \in Monitors : monitor[w] \in Watch
  BY DEF PublicTypes
<1> QED BY <1>1, <1>2, <1>3, <1>4

LEMMA ItemsAreItems ==
    ASSUME NEW items \in ItemsType
    PROVE  /\ DOMAIN items \subseteq Listed /\ items \in [DOMAIN items -> Item]
           /\ \A m \in DOMAIN items : items[m].price \in 0..MaxPrice /\ items[m].checked \in Nat
BY DEF ItemsType, Item

LEMMA DraftType == ASSUME PublicTypes PROVE Draft \in ItemsType /\ DOMAIN Draft = Active /\ Active \subseteq Listed
<1>1. Active \subseteq Listed
  BY DEF Active
<1>2. Draft \in [Active -> Item]
  BY <1>1 DEF Draft, Item, PublicTypes, Row
<1> QED BY <1>1, <1>2 DEF ItemsType

LEMMA ItemsCurrent == ASSUME PublicTypes PROVE Items \in ItemsType
<1>1. CASE current.price = 0
  <2>1. [m \in {} |-> {}] \in [{} -> Item]
    OBVIOUS
  <2>2. {} \in SUBSET Listed
    OBVIOUS
  <2> QED BY <1>1, <2>1, <2>2 DEF Items, ItemsType
<1>2. CASE current.price # 0
  BY <1>2, PublicFacts DEF Items, Snapshot
<1> QED BY <1>1, <1>2

LEMMA PricesAreSeen == ASSUME NEW items \in ItemsType PROVE PricesOf(items) \in Seen
<1>1. PricesOf(items) \subseteq Listed \X (0..MaxPrice)
  BY ItemsAreItems DEF PricesOf
<1> QED BY <1>1 DEF Seen

LEMMA PricesOfDraft == PricesOf(Draft) = {<<m, model[m].price>> : m \in Active}
<1>1. DOMAIN Draft = Active /\ \A m \in Active : Draft[m].price = model[m].price
  BY DEF Draft
<1> QED BY <1>1 DEF PricesOf

LEMMA RequestFacts ==
    ASSUME NEW q \in Request
    PROVE  q.op \in Ask /\ q.expected \in Nat /\ q.source \in Nat /\ q.made \in Nat
BY DEF Request

----------------------------------------------------------------------------
(* What keeps each part of the invariant *)

\* Nothing that was published is changed.
Grown ==
    /\ \A s \in DOMAIN snapshots : s \in DOMAIN snapshots' /\ snapshots'[s] = snapshots[s]
    /\ \A r \in DOMAIN releases : r \in DOMAIN releases' /\ releases'[r] = releases[r]

\* A change of what Root reviews is a new revision.
Revised ==
    /\ priceRev' \in Nat /\ content'.rev \in Nat
    /\ (priceRev' = priceRev /\ PricesOf(Draft)' = PricesOf(Draft)) \/ priceRev' > priceRev
    /\ (content'.rev = content.rev /\ ContentSeen' = ContentSeen) \/ content'.rev > content.rev

SameRequest(p) == /\ post'[p].op = post[p].op /\ post'[p].expected = post[p].expected /\ post'[p].source = post[p].source
                  /\ post'[p].seen = post[p].seen /\ post'[p].made = post[p].made

LEMMA RequestStays ==
    ASSUME PublicTypes, NEW p \in Posts, Foreseen(p), Fulfilled(p), Grown, Revised, SameRequest(p)
    PROVE  Foreseen(p)' /\ Fulfilled(p)'
<1>1. post[p].expected \in Nat /\ priceRev \in Nat /\ content.rev \in Nat
  BY DEF PublicTypes, Request, ContentType
<1>2. Foreseen(p)'
  <2>1. post'[p].op = "prices" => /\ post'[p].expected <= priceRev'
                                  /\ post'[p].made = 0 /\ post'[p].expected = priceRev' => post'[p].seen = PricesOf(Draft)'
    BY <1>1 DEF Foreseen, Revised, SameRequest
  <2>2. post'[p].op = "restorePrices" => /\ post'[p].source \in DOMAIN snapshots'
                                         /\ post'[p].seen = PricesOf(snapshots'[post'[p].source].items)
    BY DEF Foreseen, Grown, SameRequest
  <2>3. post'[p].op = "content" => /\ post'[p].expected <= content'.rev
                                   /\ post'[p].made = 0 /\ post'[p].expected = content'.rev => post'[p].seen = ContentSeen'
    BY <1>1 DEF Foreseen, Revised, SameRequest
  <2>4. post'[p].op = "restoreContent" => /\ post'[p].source \in DOMAIN releases'
                                          /\ post'[p].seen = releases'[post'[p].source].body
    BY DEF Foreseen, Grown, SameRequest
  <2>5. \A x : PricesOf(x)' = PricesOf(x')
    BY DEF PricesOf
  <2> QED BY <2>1, <2>2, <2>3, <2>4, <2>5 DEF Foreseen, PricesOf
<1>3. Fulfilled(p)'
  <2>1. CASE post[p].made = 0
    BY <2>1 DEF Fulfilled, SameRequest
  <2>2. CASE post[p].made # 0
    <3>1. post[p].op \in {"prices", "restorePrices"} => post[p].made \in DOMAIN snapshots' /\ snapshots'[post[p].made] = snapshots[post[p].made]
      BY <2>2 DEF Fulfilled, Grown
    <3>2. post[p].op \in {"content", "restoreContent"} => post[p].made \in DOMAIN releases' /\ releases'[post[p].made] = releases[post[p].made]
      BY <2>2 DEF Fulfilled, Grown
    <3> QED BY <2>2, <3>1, <3>2 DEF Fulfilled, SameRequest, PricesOf
  <2> QED BY <2>1, <2>2
<1> QED BY <1>2, <1>3

LEMMA AuthoredStays ==
    ASSUME Authored, UNCHANGED <<snapshots, releases>>, PublicTypes,
           \A p \in Posts : (post'[p].op = "none" => post'[p].made = 0) /\ (post[p].made # 0 => post'[p].made # 0)
    PROVE  Authored'
BY DEF Authored

LEMMA CheckedStays ==
    ASSUME Checked, PublicTypes, UNCHANGED <<looked, monitor, lease>>,
           \A m \in Listed : \A t \in Nat : CheckedBy(m, t) => CheckedBy(m, t)'
    PROVE  Checked'
<1>1. looked \in Nat /\ \A w \in Monitors : monitor[w].time \in Nat
  BY DEF PublicTypes, Watch
<1>2. \A m \in Listed : CheckedBy(m, looked)'
  BY <1>1 DEF Checked
<1>3. ASSUME NEW w \in Monitors, lease.owner = w, monitor[w].at = "observed"
      PROVE  monitor[w].time # 0 /\ \A m \in Listed : CheckedBy(m, monitor[w].time - 1)'
  <2>1. monitor[w].time # 0 /\ \A m \in Listed : CheckedBy(m, monitor[w].time - 1)
    BY <1>3 DEF Checked
  <2>2. monitor[w].time - 1 \in Nat
    BY <1>1, <2>1
  <2> QED BY <2>1, <2>2
<1> QED BY <1>2, <1>3 DEF Checked, CheckedBy

----------------------------------------------------------------------------
(* The drafts *)

\* Pages write to the models: a status never hides a removal, and strikes and check times are not invented.
RowAllowed(m) ==
    /\ model'[m].status = "active" => ~model'[m].removed
    /\ model'[m].removed => model[m].removed
    /\ model'[m].status = "none" => model'[m].strikes = 0
    /\ Exists(m)' => model'[m].strikes <= missed[m]
    /\ model'[m].checked \in {model[m].checked, seenAt[m]}

LEMMA DraftEdits ==
    ASSUME PublicInv, UNCHANGED <<content, publishedVars, post, monitorVars>>, model' \in [Listed -> Row],
           priceRev' = priceRev + 1, \A m \in Listed : RowAllowed(m)
    PROVE  PublicInv'
<1> USE DEF PublicInv
<1>1. UNCHANGED <<content, snapshots, releases, current, post, looked, seenAt, monitor, lease, intent, missed, budget>>
  BY DEF publishedVars, monitorVars
<1>2. PublicTypes'
  BY <1>1 DEF PublicTypes
<1>3. \A p \in Posts : Foreseen(p)' /\ Fulfilled(p)'
  <2>1. Grown
    BY <1>1 DEF Grown
  <2>2. Revised
    BY <1>1 DEF Revised, ContentSeen, Shown, PublicTypes, ContentType
  <2> QED BY <1>1, <2>1, <2>2, RequestStays DEF SameRequest
<1>4. Authored'
  BY <1>1 DEF Authored
<1>5. Sound'
  <2>1. Items' = Items /\ DOMAIN Items \subseteq Listed
    BY <1>1, ItemsCurrent, ItemsAreItems DEF Items
  <2>2. \A m \in Listed : model'[m].removed => model[m].removed
    BY DEF RowAllowed
  <2>3. \A m \in Active' : m \in Listed /\ ~model'[m].removed
    BY DEF Active, RowAllowed
  <2>4. Fits(current.content, Items)' <=> Fits(current.content, Items)
    BY <1>1, <2>1 DEF Fits
  <2> QED BY <1>1, <2>1, <2>2, <2>3, <2>4 DEF Sound, Sanitary, UnsafeLink, UnsafeHTML, Blank
<1>6. Counted'
  BY <1>1 DEF RowAllowed, Counted
<1>7. Checked'
  <2>1. \A m \in Listed : \A t \in Nat : CheckedBy(m, t) => CheckedBy(m, t)'
    BY <1>1 DEF CheckedBy, RowAllowed
  <2> QED BY <1>1, <2>1, CheckedStays
<1> QED BY <1>2, <1>3, <1>4, <1>5, <1>6, <1>7

LEMMA RowFacts ==
    ASSUME PublicInv, NEW m \in Listed
    PROVE  /\ model[m] \in Row /\ seenAt[m] \in Nat /\ missed[m] \in Nat /\ priceRev \in Nat
           /\ model[m].status = "active" => ~model[m].removed
           /\ model[m].status = "none" => model[m].strikes = 0
           /\ Exists(m) => model[m].strikes <= missed[m]
BY DEF PublicInv, PublicTypes, Sound, Active, Counted

\* A page that writes one model, or none but its price.
LEMMA OneRowWritten ==
    ASSUME PublicInv, NEW m \in Listed, NEW row \in Row, model' = [model EXCEPT ![m] = row], priceRev' = priceRev + 1,
           UNCHANGED <<content, publishedVars, post, monitorVars>>,
           row.status = "active" => ~row.removed, row.removed => model[m].removed, row.status # "none",
           row.strikes <= missed[m], row.checked \in {model[m].checked, seenAt[m]}
    PROVE  PublicInv'
<1>1. model' \in [Listed -> Row] /\ model'[m] = row /\ \A n \in Listed : n # m => model'[n] = model[n]
  BY DEF PublicInv, PublicTypes
<1>2. UNCHANGED missed
  BY DEF monitorVars
<1>3. ASSUME NEW n \in Listed PROVE RowAllowed(n)
  <2>1. CASE n = m
    BY <1>1, <2>1 DEF RowAllowed
  <2>2. CASE n # m
    BY <1>1, <2>2, RowFacts DEF RowAllowed, Exists
  <2> QED BY <2>1, <2>2
<1> QED BY <1>1, <1>3, DraftEdits

LEMMA ModelPagesStep == ASSUME PublicInv, ModelPages PROVE PublicInv'
<1>1. PICK m \in Listed : Creates(m) \/ Updates(m) \/ Activates(m) \/ Deactivates(m) \/ Deletes(m)
  BY DEF ModelPages
<1>2. /\ model[m] \in Row /\ seenAt[m] \in Nat /\ missed[m] \in Nat
      /\ model[m].status = "active" => ~model[m].removed
      /\ model[m].status = "none" => model[m].strikes = 0
      /\ Exists(m) => model[m].strikes <= missed[m]
  BY RowFacts
<1>3. CASE Creates(m)
  <2>1. PICK x \in 0..MaxPrice :
          model' = [model EXCEPT ![m] = [Unlisted EXCEPT !.status = "draft", !.price = x, !.checked = seenAt[m]]]
    BY <1>3 DEF Creates
  <2> DEFINE a == [Unlisted EXCEPT !.status = "draft"]
             b == [a EXCEPT !.price = x]
             row == [b EXCEPT !.checked = seenAt[m]]
  <2>1a. Unlisted \in Row /\ Unlisted.strikes = 0 /\ ~Unlisted.removed
    BY PublicationAssumption DEF Unlisted, Row
  <2>2. a \in Row /\ a.status = "draft" /\ a.strikes = 0 /\ ~a.removed
    BY <2>1a DEF Row
  <2>3. model' = [model EXCEPT ![m] = row]
    BY <2>1, <2>1a DEF Row
  <2> HIDE DEF a
  <2>4. b \in Row /\ b.status = "draft" /\ b.strikes = 0 /\ ~b.removed
    BY <2>2 DEF Row
  <2> HIDE DEF b
  <2>5. row \in Row /\ row.status = "draft" /\ row.strikes = 0 /\ ~row.removed /\ row.checked = seenAt[m]
    BY <1>2, <2>4 DEF Row
  <2> HIDE DEF row
  <2>6. priceRev' = priceRev + 1 /\ UNCHANGED <<content, publishedVars, post, monitorVars>>
    BY <1>3 DEF Creates, Advanced
  <2>7. row.strikes <= missed[m] /\ row.status # "none" /\ row.checked \in {model[m].checked, seenAt[m]}
    BY <1>2, <2>5
  <2> QED BY <2>3, <2>5, <2>6, <2>7, OneRowWritten
<1>4. ASSUME NEW row \in Row, Changes(m, row), row.status = "active" => ~row.removed, row.removed => model[m].removed,
             row.status # "none", row.strikes = model[m].strikes, row.checked = model[m].checked
      PROVE  PublicInv'
  BY <1>2, <1>4, OneRowWritten DEF Changes, Advanced
<1>5. CASE Updates(m)
  <2>1. PICK x \in 0..MaxPrice : Changes(m, [model[m] EXCEPT !.price = x])
    BY <1>5 DEF Updates
  <2> DEFINE row == [model[m] EXCEPT !.price = x]
  <2>2. /\ row \in Row /\ row.status = model[m].status /\ row.removed = model[m].removed
        /\ row.strikes = model[m].strikes /\ row.checked = model[m].checked
    BY <1>2 DEF Row
  <2>3. Changes(m, row) /\ model[m].status # "none"
    BY <2>1 DEF Changes, Exists
  <2> HIDE DEF row
  <2> QED BY <1>2, <1>4, <2>2, <2>3
<1>6. ASSUME NEW st \in {"active", "inactive", "deleted"}, Changes(m, [model[m] EXCEPT !.status = st, !.removed = FALSE])
      PROVE  PublicInv'
  <2> DEFINE a == [model[m] EXCEPT !.status = st]
             row == [a EXCEPT !.removed = FALSE]
  <2>1. a \in Row /\ a.status = st /\ a.strikes = model[m].strikes /\ a.checked = model[m].checked
    BY <1>2 DEF Row
  <2>2. Changes(m, row)
    BY <1>2, <1>6 DEF Row
  <2> HIDE DEF a
  <2>3. row \in Row /\ row.status = st /\ ~row.removed /\ row.strikes = model[m].strikes /\ row.checked = model[m].checked
    BY <2>1 DEF Row
  <2>4. st # "none"
    OBVIOUS
  <2> HIDE DEF row
  <2> QED BY <1>4, <2>2, <2>3, <2>4
<1>7. Activates(m) \/ Deactivates(m) \/ Deletes(m) => PublicInv'
  BY <1>6 DEF Activates, Deactivates, Deletes
<1> QED BY <1>1, <1>3, <1>5, <1>7

LEMMA SavesPricesStep == ASSUME PublicInv, SavesPrices PROVE PublicInv'
<1>1. PICK f \in [{m \in Listed : Exists(m)} -> 0..MaxPrice] :
          model' = [m \in Listed |-> IF Exists(m) THEN [model[m] EXCEPT !.price = f[m]] ELSE model[m]]
  BY DEF SavesPrices
<1>2. ASSUME NEW m \in Listed
      PROVE  /\ model'[m] \in Row /\ model'[m].status = model[m].status /\ model'[m].removed = model[m].removed
             /\ model'[m].strikes = model[m].strikes /\ model'[m].checked = model[m].checked
  <2>1. model[m] \in Row
    BY RowFacts
  <2>2. CASE Exists(m)
    <3> DEFINE x == f[m]
    <3>1. x \in 0..MaxPrice
      BY <2>2
    <3>2. model'[m] = [model[m] EXCEPT !.price = x]
      BY <1>1, <2>2
    <3> HIDE DEF x
    <3> QED BY <2>1, <3>1, <3>2 DEF Row
  <2>3. CASE ~Exists(m)
    BY <1>1, <2>1, <2>3
  <2> QED BY <2>2, <2>3
<1>3. model' \in [Listed -> Row]
  <2>1. model' = [m \in Listed |-> model'[m]]
    BY <1>1
  <2> QED BY <1>2, <2>1
<1>4. UNCHANGED missed
  BY DEF SavesPrices, monitorVars
<1>5. \A m \in Listed : RowAllowed(m)
  BY <1>2, <1>4, RowFacts DEF RowAllowed, Exists
<1> QED BY <1>3, <1>5, DraftEdits DEF SavesPrices, Advanced

LEMMA ContentEdits ==
    ASSUME PublicInv, UNCHANGED <<model, priceRev, publishedVars, post, monitorVars>>, content' \in ContentType,
           content'.rev = content.rev + 1
    PROVE  PublicInv'
<1> USE DEF PublicInv
<1>1. UNCHANGED <<model, priceRev, snapshots, releases, current, post, looked, seenAt, monitor, lease, intent, missed, budget>>
  BY DEF publishedVars, monitorVars
<1>2. PublicTypes'
  BY <1>1 DEF PublicTypes
<1>3. \A p \in Posts : Foreseen(p)' /\ Fulfilled(p)'
  <2>1. Grown
    BY <1>1 DEF Grown
  <2>2. Revised
    BY <1>1 DEF Revised, PricesOf, Draft, Active, PublicTypes, ContentType
  <2> QED BY <1>1, <2>1, <2>2, RequestStays DEF SameRequest
<1>4. Authored' /\ Sound' /\ Counted'
  BY <1>1 DEF Authored, Sound, Active, Items, Fits, Sanitary, UnsafeLink, UnsafeHTML, Blank, Counted, Exists
<1>5. Checked'
  BY <1>1 DEF Checked, CheckedBy
<1> QED BY <1>2, <1>3, <1>4, <1>5

LEMMA EditsStep ==
    ASSUME PublicInv, NEW c \in ContentType, Edits(c)
    PROVE  PublicInv'
<1> DEFINE r == content.rev + 1
           d == [c EXCEPT !.rev = r]
<1>1. r \in Nat
  BY DEF PublicInv, PublicTypes, ContentType
<1>2. content' = d
  BY DEF Edits
<1>3. d \in ContentType /\ d.rev = r
  BY <1>1 DEF ContentType
<1> HIDE DEF d
<1> QED BY <1>2, <1>3, ContentEdits DEF Edits

LEMMA ContentType0 == PublicInv => content \in ContentType
BY DEF PublicInv, PublicTypes

LEMMA HomeEntryStep ==
    ASSUME PublicInv, NEW n \in News \cup Questions, NEW from, NEW to \in SUBSET {"none", "shown", "hidden", "gone"},
           HomeEntry(n, from, to)
    PROVE  PublicInv'
<1>1. PICK s \in to : Edits([content EXCEPT !.news[n] = s])
  BY DEF HomeEntry
<1> DEFINE c == [content EXCEPT !.news[n] = s]
<1>2. c \in ContentType
  BY ContentType0 DEF ContentType
<1>3. Edits(c)
  BY <1>1
<1> HIDE DEF c
<1> QED BY <1>2, <1>3, EditsStep

LEMMA NewsPagesStep == ASSUME PublicInv, NewsPages PROVE PublicInv'
<1>1. PICK n \in News, to \in SUBSET {"none", "shown", "hidden", "gone"}, from \in SUBSET {"none", "shown", "hidden", "gone"} :
          HomeEntry(n, from, to)
  <2>1. {"none"} \in SUBSET {"none", "shown", "hidden", "gone"} /\ {"gone"} \in SUBSET {"none", "shown", "hidden", "gone"}
        /\ {"shown", "hidden"} \in SUBSET {"none", "shown", "hidden", "gone"}
    OBVIOUS
  <2> QED BY <2>1, Zenon DEF NewsPages, AddsNews, UpdatesNews, DeletesNews
<1> QED BY <1>1, HomeEntryStep

LEMMA HomePagesStep == ASSUME PublicInv, HomePages PROVE PublicInv'
<1>0. content \in ContentType /\ Active \subseteq Listed
  BY ContentType0 DEF Active
<1>1. CASE SavesDocuments
  <2>1. PICK ok \in BOOLEAN : Edits([content EXCEPT !.reviewed = ok])
    BY <1>1 DEF SavesDocuments
  <2> DEFINE c == [content EXCEPT !.reviewed = ok]
  <2>2. c \in ContentType /\ Edits(c)
    BY <1>0, <2>1 DEF ContentType
  <2> HIDE DEF c
  <2> QED BY <2>2, EditsStep
<1>2. CASE ReplacesFeatured
  <2>1. PICK F \in SUBSET Active : Edits([content EXCEPT !.featured = F])
    BY <1>2 DEF ReplacesFeatured
  <2> DEFINE c == [content EXCEPT !.featured = F]
  <2>2. c \in ContentType /\ Edits(c)
    BY <1>0, <2>1 DEF ContentType
  <2> HIDE DEF c
  <2> QED BY <2>2, EditsStep
<1>3. CASE AddsFAQ \/ UpdatesFAQ \/ DeletesFAQ
  <2>1. PICK n \in Questions, to \in SUBSET {"none", "shown", "hidden", "gone"}, from \in SUBSET {"none", "shown", "hidden", "gone"} :
            HomeEntry(n, from, to)
    <3>1. {"none"} \in SUBSET {"none", "shown", "hidden", "gone"} /\ {"gone"} \in SUBSET {"none", "shown", "hidden", "gone"}
          /\ {"shown", "hidden"} \in SUBSET {"none", "shown", "hidden", "gone"}
      OBVIOUS
    <3> QED BY <1>3, <3>1, Zenon DEF AddsFAQ, UpdatesFAQ, DeletesFAQ
  <2> QED BY <2>1, HomeEntryStep
<1> QED BY <1>1, <1>2, <1>3 DEF HomePages

LEMMA SavesDraftStep == ASSUME PublicInv, SavesDraft PROVE PublicInv'
<1>1. PICK b \in Bodies, ok \in BOOLEAN : Edits([content EXCEPT !.body = b, !.reviewed = ok])
  BY DEF SavesDraft
<1> DEFINE a == [content EXCEPT !.body = b]
           c == [a EXCEPT !.reviewed = ok]
<1>2. a \in ContentType
  BY ContentType0 DEF ContentType
<1>3. Edits(c)
  BY <1>1, ContentType0 DEF ContentType
<1> HIDE DEF a
<1>4. c \in ContentType
  BY <1>2 DEF ContentType
<1> HIDE DEF c
<1> QED BY <1>3, <1>4, EditsStep

----------------------------------------------------------------------------
(* Requests *)

LEMMA PublishedStays == UNCHANGED <<draftVars, publishedVars, monitorVars>> =>
    UNCHANGED <<model, priceRev, content, snapshots, releases, current, looked, seenAt, monitor, lease, intent, missed, budget>>
BY DEF draftVars, publishedVars, monitorVars

\* A request alone changes: what it asks for, or what it was answered.
LEMMA RequestChanges ==
    ASSUME PublicInv, UNCHANGED <<draftVars, publishedVars, monitorVars>>, NEW p \in Posts, NEW row \in Request,
           post' = [post EXCEPT ![p] = row], row.op = "none" => row.made = 0, post[p].made # 0 => row.made # 0,
           Foreseen(p)' /\ Fulfilled(p)'
    PROVE  PublicInv'
<1> USE DEF PublicInv
<1>1. UNCHANGED <<model, priceRev, content, snapshots, releases, current, looked, seenAt, monitor, lease, intent, missed, budget>>
  BY PublishedStays
<1>2. post' \in [Posts -> Request] /\ post'[p] = row /\ \A q \in Posts : q # p => post'[q] = post[q]
  BY DEF PublicTypes
<1>3. PublicTypes'
  BY <1>1, <1>2 DEF PublicTypes
<1>4. Grown /\ Revised
  <2>1. Grown
    BY <1>1 DEF Grown
  <2>2. Revised
    BY <1>1 DEF Revised, PublicTypes, ContentType, PricesOf, Draft, Active, ContentSeen, Shown
  <2> QED BY <2>1, <2>2
<1>5. ASSUME NEW q \in Posts PROVE Foreseen(q)' /\ Fulfilled(q)'
  <2>1. CASE q = p
    BY <2>1
  <2>2. CASE q # p
    <3>1. SameRequest(q)
      BY <1>2, <2>2 DEF SameRequest
    <3> QED BY <1>4, <3>1, RequestStays
  <2> QED BY <2>1, <2>2
<1>6. Authored'
  <2>1. \A q \in Posts : (post'[q].op = "none" => post'[q].made = 0) /\ (post[q].made # 0 => post'[q].made # 0)
    BY <1>2 DEF Authored
  <2> QED BY <1>1, <2>1, AuthoredStays
<1>7. Sound' /\ Counted'
  BY <1>1 DEF Sound, Active, Items, Fits, Sanitary, UnsafeLink, UnsafeHTML, Blank, Counted, Exists
<1>8. Checked'
  BY <1>1 DEF Checked, CheckedBy
<1> QED BY <1>3, <1>5, <1>6, <1>7, <1>8

\* An answer changes nothing of what was asked for and made.
LEMMA AnswersOnly ==
    ASSUME PublicInv, UNCHANGED <<draftVars, publishedVars, monitorVars>>, NEW p \in Posts,
           NEW a \in {"none", "made", "refused"}, post' = [post EXCEPT ![p] = [post[p] EXCEPT !.answer = a]]
    PROVE  PublicInv'
<1> DEFINE row == [post[p] EXCEPT !.answer = a]
<1>1. post[p] \in Request /\ Foreseen(p) /\ Fulfilled(p) /\ PublicTypes /\ (post[p].op = "none" => post[p].made = 0)
  BY DEF PublicInv, PublicTypes, Authored
<1>2. /\ row \in Request /\ row.op = post[p].op /\ row.expected = post[p].expected /\ row.source = post[p].source
      /\ row.seen = post[p].seen /\ row.made = post[p].made
  BY <1>1 DEF Request
<1>3. post' = [post EXCEPT ![p] = row]
  OBVIOUS
<1> HIDE DEF row
<1>4. post'[p] = row
  BY <1>1, <1>3 DEF PublicTypes
<1>5. Grown /\ Revised
  <2>1. UNCHANGED <<model, priceRev, content, snapshots, releases, current, looked, seenAt, monitor, lease, intent, missed, budget>>
    BY PublishedStays
  <2>2. Grown
    BY <2>1 DEF Grown
  <2>3. Revised
    BY <1>1, <2>1 DEF Revised, PublicTypes, ContentType, PricesOf, Draft, Active, ContentSeen, Shown
  <2> QED BY <2>2, <2>3
<1>6. Foreseen(p)' /\ Fulfilled(p)'
  BY <1>1, <1>2, <1>4, <1>5, RequestStays DEF SameRequest
<1> QED BY <1>1, <1>2, <1>3, <1>6, RequestChanges

\* A review takes down the revision and what it saw under it.
LEMMA AskedFor ==
    ASSUME PublicInv, UNCHANGED <<draftVars, publishedVars, monitorVars>>, NEW p \in Posts, post[p].op = "none",
           NEW o \in Ask, NEW x \in Nat, NEW y \in Nat, NEW z \in Seen,
           post' = [post EXCEPT ![p] = [NoPost EXCEPT !.op = o, !.expected = x, !.source = y, !.seen = z]],
           o = "prices" => x = priceRev /\ z = PricesOf(Draft),
           o = "restorePrices" => y \in DOMAIN snapshots /\ z = PricesOf(snapshots[y].items),
           o = "content" => x = content.rev /\ z = ContentSeen,
           o = "restoreContent" => y \in DOMAIN releases /\ z = releases[y].body
    PROVE  PublicInv'
<1> DEFINE a == [NoPost EXCEPT !.op = o]
           b == [a EXCEPT !.expected = x]
           c == [b EXCEPT !.source = y]
           row == [c EXCEPT !.seen = z]
<1>0. NoPost \in Request /\ NoPost.made = 0
  BY DEF NoPost, Request, Seen, Ask
<1>1. post' = [post EXCEPT ![p] = row]
  BY <1>0 DEF Request
<1>2. a \in Request /\ a.op = o /\ a.made = 0
  BY <1>0 DEF Request
<1> HIDE DEF a
<1>3. b \in Request /\ b.op = o /\ b.made = 0 /\ b.expected = x
  BY <1>2 DEF Request
<1> HIDE DEF b
<1>4. c \in Request /\ c.op = o /\ c.made = 0 /\ c.expected = x /\ c.source = y
  BY <1>3 DEF Request
<1> HIDE DEF c
<1>5. row \in Request /\ row.op = o /\ row.made = 0 /\ row.expected = x /\ row.source = y /\ row.seen = z
  BY <1>4 DEF Request
<1> HIDE DEF row
<1>6. post[p].made = 0 /\ post'[p] = row
  BY <1>1 DEF PublicInv, PublicTypes, Authored
<1>7. UNCHANGED <<model, priceRev, content, snapshots, releases>>
  BY PublishedStays
<1>8. PricesOf(Draft)' = PricesOf(Draft) /\ ContentSeen' = ContentSeen
  BY <1>7 DEF PricesOf, Draft, Active, ContentSeen, Shown
<1>9. priceRev \in Nat /\ content.rev \in Nat
  BY DEF PublicInv, PublicTypes, ContentType
<1>10. Fulfilled(p)'
  BY <1>5, <1>6 DEF Fulfilled
<1>11. Foreseen(p)'
  <2>1. \A s \in DOMAIN snapshots : PricesOf(snapshots[s].items)' = PricesOf(snapshots[s].items)
    BY <1>7 DEF PricesOf
  <2> QED BY <1>5, <1>6, <1>7, <1>8, <1>9, <2>1 DEF Foreseen
<1> QED BY <1>1, <1>5, <1>6, <1>10, <1>11, RequestChanges

LEMMA ReviewsStep == ASSUME PublicInv, NEW p \in Posts, Reviews(p) PROVE PublicInv'
<1>0. PublicTypes /\ post[p].op = "none" /\ UNCHANGED <<draftVars, publishedVars, monitorVars>>
  BY DEF Reviews, PublicInv
<1> DEFINE Taken(o, x, y, z) ==
             post' = [post EXCEPT ![p] = [NoPost EXCEPT !.op = o, !.expected = x, !.source = y, !.seen = z]]
<1>1. priceRev \in Nat /\ content.rev \in Nat /\ current.price \in Nat
  BY <1>0, PublicFacts DEF PublicTypes, ContentType
<1>2. PricesOf(Draft) \in Seen /\ ContentSeen \in Seen
  <2>1. PricesOf(Draft) \in Seen
    BY <1>0, DraftType, PricesAreSeen
  <2>2. Shown \subseteq News \cup Questions
    BY DEF Shown
  <2>3. content.body \in Bodies /\ content.featured \in SUBSET Listed
    BY <1>0 DEF PublicTypes, ContentType
  <2>4. ContentSeen \in [body : Bodies, featured : SUBSET Listed, news : SUBSET (News \cup Questions)]
    BY <2>2, <2>3 DEF ContentSeen
  <2>5. ContentSeen \in Seen
    BY <2>4, Zenon DEF Seen
  <2> QED BY <2>1, <2>5
<1>3. ASSUME NEW s \in DOMAIN snapshots PROVE s \in Nat /\ PricesOf(snapshots[s].items) \in Seen
  <2>1. s \in Nat /\ snapshots[s].items \in ItemsType
    BY <1>0, PublicFacts DEF Snapshot
  <2> QED BY <2>1, PricesAreSeen
<1>4. ASSUME NEW r \in DOMAIN releases PROVE r \in Nat /\ releases[r].body \in Seen
  <2>1. r \in Nat /\ releases[r].body \in Bodies
    BY <1>0, PublicFacts DEF Release
  <2>2. releases[r].body \in Seen
    BY <2>1, Zenon DEF Seen
  <2> QED BY <2>1, <2>2
<1>5. \/ Taken("prices", priceRev, 0, PricesOf(Draft))
      \/ Taken("content", content.rev, current.price, ContentSeen)
      \/ \E s \in DOMAIN snapshots : Taken("restorePrices", priceRev, s, PricesOf(snapshots[s].items))
      \/ \E r \in DOMAIN releases : Taken("restoreContent", content.rev, r, releases[r].body)
  <2>1. PICK q \in {[op |-> "prices", expected |-> priceRev, source |-> 0, seen |-> PricesOf(Draft)],
                    [op |-> "content", expected |-> content.rev, source |-> current.price, seen |-> ContentSeen]}
                  \cup {[op |-> "restorePrices", expected |-> priceRev, source |-> s,
                         seen |-> PricesOf(snapshots[s].items)] : s \in DOMAIN snapshots}
                  \cup {[op |-> "restoreContent", expected |-> content.rev, source |-> r, seen |-> releases[r].body] : r \in DOMAIN releases} :
               Taken(q.op, q.expected, q.source, q.seen)
    BY Zenon DEF Reviews, ContentSeen
  <2>2. \/ q = [op |-> "prices", expected |-> priceRev, source |-> 0, seen |-> PricesOf(Draft)]
        \/ q = [op |-> "content", expected |-> content.rev, source |-> current.price, seen |-> ContentSeen]
        \/ \E s \in DOMAIN snapshots : q = [op |-> "restorePrices", expected |-> priceRev, source |-> s, seen |-> PricesOf(snapshots[s].items)]
        \/ \E r \in DOMAIN releases : q = [op |-> "restoreContent", expected |-> content.rev, source |-> r, seen |-> releases[r].body]
    BY Zenon
  <2> HIDE DEF Taken
  <2> QED BY <2>1, <2>2
<1> HIDE DEF Taken
<1>6. "prices" \in Ask /\ "content" \in Ask /\ "restorePrices" \in Ask /\ "restoreContent" \in Ask /\ 0 \in Nat
  BY DEF Ask
<1>7. CASE Taken("prices", priceRev, 0, PricesOf(Draft))
  BY <1>0, <1>1, <1>2, <1>6, <1>7, AskedFor DEF Taken
<1>8. CASE Taken("content", content.rev, current.price, ContentSeen)
  BY <1>0, <1>1, <1>2, <1>6, <1>8, AskedFor DEF Taken
<1>9. ASSUME NEW s \in DOMAIN snapshots, Taken("restorePrices", priceRev, s, PricesOf(snapshots[s].items)) PROVE PublicInv'
  <2>1. /\ "restorePrices" \in Ask /\ priceRev \in Nat /\ s \in Nat /\ PricesOf(snapshots[s].items) \in Seen
        /\ "restorePrices" \notin {"prices", "content", "restoreContent"}
    BY <1>0, <1>1, <1>3, <1>6, <1>9
  <2> DEFINE z == PricesOf(snapshots[s].items)
  <2>2. post' = [post EXCEPT ![p] = [NoPost EXCEPT !.op = "restorePrices", !.expected = priceRev, !.source = s, !.seen = z]]
    BY <1>9 DEF Taken
  <2> HIDE DEF z
  <2>3. s \in DOMAIN snapshots /\ z = PricesOf(snapshots[s].items) /\ z \in Seen
    BY <2>1 DEF z
  <2> QED BY <1>0, <1>1, <2>1, <2>2, <2>3, AskedFor
<1>10. ASSUME NEW r \in DOMAIN releases, Taken("restoreContent", content.rev, r, releases[r].body) PROVE PublicInv'
  BY <1>0, <1>1, <1>4, <1>6, <1>10, AskedFor DEF Taken
<1> QED BY <1>5, <1>7, <1>8, <1>9, <1>10

----------------------------------------------------------------------------
(* Publications *)

\* A new version keeps the names apart if its author had none before.
LEMMA AuthoredGrows ==
    ASSUME PublicInv, NEW a \in Authors, Grown, NEW x, NEW y, x \notin DOMAIN snapshots, y \notin DOMAIN releases,
           \A s \in DOMAIN snapshots' : s \in DOMAIN snapshots \/ (s = x /\ snapshots'[s].by = a),
           \A r \in DOMAIN releases' : r \in DOMAIN releases \/ (r = y /\ releases'[r].by = a),
           \A p \in Posts : (post'[p].op = "none" => post'[p].made = 0) /\ (post[p].made # 0 => post'[p].made # 0),
           a \in Posts => post[a].made = 0 /\ post'[a].made # 0
    PROVE  Authored'
<1>0. Authored
  BY DEF PublicInv
<1>1. \A s \in DOMAIN snapshots' : snapshots'[s].by \in Posts => post'[snapshots'[s].by].made # 0
  BY <1>0 DEF Authored, Grown
<1>2. \A r \in DOMAIN releases' : releases'[r].by \in Posts => post'[releases'[r].by].made # 0
  BY <1>0 DEF Authored, Grown
<1>3. ASSUME NEW s \in DOMAIN snapshots', NEW t \in DOMAIN snapshots', snapshots'[s].by \in Posts, snapshots'[s].by = snapshots'[t].by
      PROVE  s = t
  <2>1. \A u \in DOMAIN snapshots : snapshots[u].by # a \/ a \notin Posts
    BY <1>0 DEF Authored
  <2> QED BY <1>0, <1>3, <2>1 DEF Authored, Grown
<1>4. ASSUME NEW r \in DOMAIN releases', NEW q \in DOMAIN releases', releases'[r].by \in Posts, releases'[r].by = releases'[q].by
      PROVE  r = q
  <2>1. \A u \in DOMAIN releases : releases[u].by # a \/ a \notin Posts
    BY <1>0 DEF Authored
  <2> QED BY <1>0, <1>4, <2>1 DEF Authored, Grown
<1> QED BY <1>1, <1>2, <1>3, <1>4 DEF Authored

\* What a publication of prices makes: a snapshot, and the current release once more beside it.
PricesMade(items, a) ==
    /\ Grown
    /\ snapshots' \in Seq(Snapshot) /\ releases' \in Seq(Release)
    /\ Len(snapshots) + 1 \in DOMAIN snapshots' /\ Len(snapshots) + 1 \notin DOMAIN snapshots
    /\ snapshots'[Len(snapshots) + 1] = [items |-> items, by |-> a]
    /\ Len(releases) + 1 \notin DOMAIN releases
    /\ \A s \in DOMAIN snapshots' : s \in DOMAIN snapshots \/ s = Len(snapshots) + 1
    /\ \A r \in DOMAIN releases' : r \in DOMAIN releases \/ (r = Len(releases) + 1 /\ releases'[r].by = a)
    /\ \A r \in DOMAIN releases' : Sanitary(releases'[r].body)
    /\ current' \in [price : 0..Len(snapshots'), content : 0..Len(releases')]
    /\ current'.content # 0 => current'.price # 0
    /\ Items' = items
    /\ current'.content # 0 => releases'[current'.content].price = current'.price /\ Fits(current.content, Items)'

LEMMA PricesPublished ==
    ASSUME PublicInv, NEW items \in ItemsType, NEW a \in Authors, PricesCommit(items, a),
           current.content # 0 => Fits(current.content, items)
    PROVE  PricesMade(items, a)
<1> DEFINE n == Len(snapshots) + 1
           e == [items |-> items, by |-> a]
<1>0. PublicTypes /\ Sound
  BY DEF PublicInv
<1>1. /\ snapshots \in Seq(Snapshot) /\ releases \in Seq(Release) /\ Len(snapshots) \in Nat /\ Len(releases) \in Nat
      /\ DOMAIN snapshots = 1..Len(snapshots) /\ DOMAIN releases = 1..Len(releases)
      /\ current \in [price : 0..Len(snapshots), content : 0..Len(releases)]
  BY <1>0, PublicFacts DEF PublicTypes
<1>2. e \in Snapshot /\ snapshots' = Append(snapshots, e)
  BY DEF Snapshot, PricesCommit
<1> HIDE DEF e
<1>3. /\ snapshots' \in Seq(Snapshot) /\ Len(snapshots') = n /\ DOMAIN snapshots' = 1..n /\ snapshots'[n] = e
      /\ \A i \in DOMAIN snapshots : snapshots'[i] = snapshots[i] /\ i \in DOMAIN snapshots'
      /\ \A i \in DOMAIN snapshots' : i \in DOMAIN snapshots \/ i = n
  BY <1>1, <1>2, Appended
<1>4. n \in DOMAIN snapshots' /\ n \notin DOMAIN snapshots /\ n \in Nat /\ n # 0 /\ Len(releases) + 1 \notin DOMAIN releases
  BY <1>1, <1>3
<1>5. CASE current.content = 0
  <2>1. current' = [current EXCEPT !.price = n] /\ releases' = releases
    BY <1>5 DEF PricesCommit
  <2>2. current'.price = n /\ current'.content = 0 /\ current' \in [price : 0..Len(snapshots'), content : 0..Len(releases')]
    BY <1>1, <1>3, <1>4, <1>5, <2>1
  <2>3. Items' = items
    BY <1>3, <1>4, <2>2 DEF Items, e
  <2>4. \A r \in DOMAIN releases' : Sanitary(releases'[r].body)
    BY <1>0, <2>1 DEF Sound
  <2> QED BY <1>1, <1>3, <1>4, <2>1, <2>2, <2>3, <2>4 DEF PricesMade, Grown, e
<1>6. CASE current.content # 0
  <2> DEFINE c == current.content
             l == Len(releases) + 1
             d == [releases[c] EXCEPT !.price = n]
             f == [d EXCEPT !.by = a]
  <2>1. releases' = Append(releases, f) /\ current' = [price |-> n, content |-> l]
    BY <1>6 DEF PricesCommit, Rebound
  <2>2. c \in DOMAIN releases /\ releases[c] \in Release /\ l \in Nat /\ l # 0
    BY <1>0, <1>1, <1>6, PublicFacts
  <2>3. d \in Release /\ d.price = n /\ d.body = releases[c].body /\ d.featured = releases[c].featured
    BY <1>4, <2>2 DEF Release
  <2> HIDE DEF d
  <2>4. f \in Release /\ f.price = n /\ f.body = releases[c].body /\ f.featured = releases[c].featured /\ f.by = a
    BY <2>3 DEF Release
  <2> HIDE DEF f
  <2>5. /\ releases' \in Seq(Release) /\ Len(releases') = l /\ DOMAIN releases' = 1..l /\ releases'[l] = f
        /\ \A i \in DOMAIN releases : releases'[i] = releases[i] /\ i \in DOMAIN releases'
        /\ \A i \in DOMAIN releases' : i \in DOMAIN releases \/ i = l
    BY <1>1, <2>1, <2>4, Appended
  <2>6. current'.price = n /\ current'.content = l /\ current' \in [price : 0..Len(snapshots'), content : 0..Len(releases')]
    BY <1>3, <1>4, <2>1, <2>2, <2>5
  <2>7. Items' = items
    BY <1>3, <1>4, <2>6 DEF Items, e
  <2>8. \A r \in DOMAIN releases' : Sanitary(releases'[r].body)
    BY <1>0, <2>2, <2>4, <2>5 DEF Sound
  <2>9. Fits(current.content, Items)'
    BY <1>6, <2>4, <2>5, <2>6, <2>7 DEF Fits
  <2> QED BY <1>1, <1>3, <1>4, <2>2, <2>4, <2>5, <2>6, <2>7, <2>8, <2>9 DEF PricesMade, Grown, e
<1> QED BY <1>5, <1>6

\* Restored prices, written back: as any page, but for check times, which are those published.
RowRestored(m, items) ==
    /\ model'[m] \in Row
    /\ model'[m].status = "active" => ~model'[m].removed
    /\ model'[m].removed => model[m].removed /\ m \notin DOMAIN items
    /\ model'[m].status = "none" => model'[m].strikes = 0
    /\ Exists(m)' => model'[m].strikes <= missed[m]
    /\ model'[m].checked = model[m].checked \/ (m \in DOMAIN items /\ model'[m].checked = items[m].checked)

LEMMA RestoresModelsStep ==
    ASSUME PublicInv, NEW items \in ItemsType, DOMAIN items \subseteq Active, RestoresModels(items), NEW m \in Listed
    PROVE  RowRestored(m, items)
<1>0. /\ model[m] \in Row /\ missed[m] \in Nat
      /\ model[m].status = "active" => ~model[m].removed
      /\ model[m].status = "none" => model[m].strikes = 0
      /\ Exists(m) => model[m].strikes <= missed[m]
  BY RowFacts
<1>1. CASE m \in DOMAIN items
  <2> DEFINE x == items[m].price
             y == items[m].checked
             a == [model[m] EXCEPT !.price = x]
             row == [a EXCEPT !.checked = y]
  <2>1. x \in 0..MaxPrice /\ y \in Nat
    BY <1>1, ItemsAreItems
  <2>2. model'[m] = row
    BY <1>0, <1>1 DEF RestoresModels, Row
  <2>2a. row.checked = items[m].checked
    BY <1>0 DEF Row
  <2> HIDE DEF x, y
  <2>3. a \in Row /\ a.status = model[m].status /\ a.removed = model[m].removed /\ a.strikes = model[m].strikes
    BY <1>0, <2>1 DEF Row
  <2> HIDE DEF a
  <2>4. row \in Row /\ row.status = model[m].status /\ row.removed = model[m].removed /\ row.strikes = model[m].strikes
    BY <2>1, <2>3 DEF Row
  <2> HIDE DEF row
  <2>5. m \in Active /\ model[m].status = "active"
    BY <1>1 DEF Active
  <2> QED BY <1>0, <1>1, <2>2, <2>2a, <2>4, <2>5 DEF RowRestored, Exists
<1>2. CASE m \notin DOMAIN items /\ m \in Active
  <2> DEFINE a == [model[m] EXCEPT !.status = "inactive"]
             row == [a EXCEPT !.removed = FALSE]
  <2>1. model'[m] = row
    BY <1>0, <1>2 DEF RestoresModels, Row
  <2>2. a \in Row /\ a.status = "inactive" /\ a.strikes = model[m].strikes /\ a.checked = model[m].checked
    BY <1>0 DEF Row
  <2> HIDE DEF a
  <2>3. row \in Row /\ row.status = "inactive" /\ ~row.removed /\ row.strikes = model[m].strikes /\ row.checked = model[m].checked
    BY <2>2 DEF Row
  <2> HIDE DEF row
  <2>4. Exists(m)
    BY <1>2 DEF Active, Exists
  <2> QED BY <1>0, <1>2, <2>1, <2>3, <2>4 DEF RowRestored, Exists
<1>3. CASE m \notin DOMAIN items /\ m \notin Active
  <2>1. model'[m] = model[m]
    BY <1>3 DEF RestoresModels
  <2> QED BY <1>0, <1>3, <2>1 DEF RowRestored, Exists
<1> QED BY <1>1, <1>2, <1>3

\* The items of a request to publish prices were published or are the draft's: no check time is new.
LEMMA CandidateFacts ==
    ASSUME PublicInv, NEW p \in Posts, post[p].op \in {"prices", "restorePrices"}
    PROVE  /\ Candidate(p) \in ItemsType
           /\ \A m \in DOMAIN Candidate(p), t \in Nat : CheckedBy(m, t) => Candidate(p)[m].checked <= t
           /\ post[p].op = "restorePrices" => PricesOf(Candidate(p)) = post[p].seen
           /\ post[p].op = "prices" /\ post[p].made = 0 /\ post[p].expected = priceRev => PricesOf(Candidate(p)) = post[p].seen
<1>0. PublicTypes /\ Foreseen(p)
  BY DEF PublicInv
<1>1. CASE post[p].op = "prices"
  <2>1. Candidate(p) = Draft
    BY <1>1 DEF Candidate
  <2>2. DOMAIN Draft = Active /\ \A m \in Active : m \in Listed /\ Draft[m].checked = model[m].checked
    BY DEF Draft, Active
  <2> QED BY <1>0, <1>1, <2>1, <2>2, DraftType DEF CheckedBy, Foreseen
<1>2. CASE post[p].op = "restorePrices"
  <2>1. Candidate(p) = snapshots[post[p].source].items /\ post[p].source \in DOMAIN snapshots
    BY <1>0, <1>2 DEF Candidate, Foreseen
  <2>2. snapshots[post[p].source].items \in ItemsType
    BY <1>0, <2>1, PublicFacts DEF Snapshot
  <2> QED BY <1>0, <1>2, <2>1, <2>2 DEF CheckedBy, Foreseen
<1> QED BY <1>1, <1>2

LEMMA CommitsPricesStep ==
    ASSUME PublicInv, NEW p \in Posts, post[p].op \in {"prices", "restorePrices"}, post[p].made = 0,
           Prepared(p), PricesAccepted(p), CommitsPrices(p), UNCHANGED monitorVars
    PROVE  PublicInv'
<1> DEFINE items == Candidate(p)
           n == Len(snapshots) + 1
<1>0. /\ PublicTypes /\ Sound /\ Counted /\ Checked /\ Authored
      /\ UNCHANGED <<content, looked, seenAt, monitor, lease, intent, missed, budget>>
  BY DEF PublicInv, CommitsPrices, monitorVars
<1>1. /\ items \in ItemsType /\ DOMAIN items \subseteq Active /\ Active \subseteq Listed
      /\ \A m \in DOMAIN items, t \in Nat : CheckedBy(m, t) => items[m].checked <= t
      /\ PricesOf(items) = post[p].seen
  BY CandidateFacts DEF Prepared, Active, PricesAccepted
<1>2. PricesMade(items, p)
  BY <1>1, PricesPublished DEF CommitsPrices, PricesAccepted, Authors
<1>3. PICK x \in {"none", "made"} : post' = [post EXCEPT ![p] = [[post[p] EXCEPT !.made = n, !.bound = items] EXCEPT !.answer = x]]
  BY DEF CommitsPrices, Answered
<1>4. \/ post[p].op = "prices" /\ UNCHANGED <<model, priceRev>>
      \/ post[p].op = "restorePrices" /\ RestoresModels(items)
  BY DEF CommitsPrices
<1> HIDE DEF items
<1>5. /\ post' \in [Posts -> Request] /\ post'[p].op = post[p].op /\ post'[p].expected = post[p].expected
      /\ post'[p].source = post[p].source /\ post'[p].seen = post[p].seen /\ post'[p].made = n
      /\ \A q \in Posts : q # p => post'[q] = post[q]
  <2> DEFINE a == [post[p] EXCEPT !.made = n]
             b == [a EXCEPT !.bound = items]
             row == [b EXCEPT !.answer = x]
  <2>1. post[p] \in Request /\ post \in [Posts -> Request] /\ n \in Nat
    BY <1>0, PublicFacts DEF PublicTypes
  <2>2. post' = [post EXCEPT ![p] = row]
    BY <1>3, <2>1 DEF Request
  <2> HIDE DEF n
  <2>3. a \in Request /\ a.op = post[p].op /\ a.expected = post[p].expected /\ a.source = post[p].source /\ a.seen = post[p].seen
        /\ a.made = n
    BY <2>1 DEF Request
  <2> HIDE DEF a
  <2>4. b \in Request /\ b.op = post[p].op /\ b.expected = post[p].expected /\ b.source = post[p].source /\ b.seen = post[p].seen
        /\ b.made = n
    BY <1>1, <2>3 DEF Request
  <2> HIDE DEF b
  <2>5. row \in Request /\ row.op = post[p].op /\ row.expected = post[p].expected /\ row.source = post[p].source
        /\ row.seen = post[p].seen /\ row.made = n
    BY <2>4 DEF Request
  <2> HIDE DEF row
  <2> QED BY <2>1, <2>2, <2>5
<1>6. \A m \in Listed : RowRestored(m, items)
  <2>1. CASE post[p].op = "prices" /\ UNCHANGED <<model, priceRev>>
    BY <1>0, <1>1, <2>1, RowFacts DEF RowRestored, Exists, Active
  <2>2. CASE RestoresModels(items)
    BY <1>1, <2>2, RestoresModelsStep
  <2> QED BY <1>4, <2>1, <2>2
<1>7. model' \in [Listed -> Row] /\ priceRev' \in Nat
  <2>1. priceRev \in Nat /\ model \in [Listed -> Row]
    BY <1>0 DEF PublicTypes
  <2>2. model' = [m \in Listed |-> model'[m]]
    BY <1>4, <2>1 DEF RestoresModels
  <2>3. priceRev' = priceRev \/ priceRev' = priceRev + 1
    BY <1>4 DEF RestoresModels, Advanced
  <2> QED BY <1>6, <2>1, <2>2, <2>3 DEF RowRestored
<1>8. Grown /\ Revised
  <2>1. priceRev \in Nat /\ content.rev \in Nat
    BY <1>0 DEF PublicTypes, ContentType
  <2>2. ContentSeen' = ContentSeen
    BY <1>0 DEF ContentSeen, Shown
  <2>3. CASE UNCHANGED <<model, priceRev>>
    <3>1. PricesOf(Draft)' = PricesOf(Draft)
      BY <2>3 DEF PricesOf, Draft, Active
    <3> QED BY <1>0, <1>2, <2>1, <2>2, <2>3, <3>1 DEF Revised, PricesMade
  <2>4. CASE RestoresModels(items)
    <3>1. priceRev' = priceRev + 1
      BY <2>4 DEF RestoresModels, Advanced
    <3>2. priceRev' \in Nat /\ priceRev' > priceRev /\ content'.rev = content.rev
      BY <1>0, <2>1, <3>1
    <3>3. Revised
      BY <2>1, <2>2, <3>2 DEF Revised
    <3> QED BY <1>2, <3>3 DEF PricesMade
  <2> QED BY <1>4, <2>3, <2>4
<1>9. PublicTypes'
  BY <1>0, <1>2, <1>5, <1>7 DEF PublicTypes, PricesMade
<1>10. n \in Nat /\ n # 0
  BY <1>0, PublicFacts
<1>11. ASSUME NEW q \in Posts PROVE Foreseen(q)' /\ Fulfilled(q)'
  <2>1. Foreseen(q) /\ Fulfilled(q)
    BY DEF PublicInv
  <2>2. CASE q # p
    <3>1. SameRequest(q)
      BY <1>5, <2>2 DEF SameRequest
    <3> QED BY <1>0, <1>8, <2>1, <3>1, RequestStays
  <2>3. CASE q = p
    <3>1. n \in DOMAIN snapshots' /\ snapshots'[n].items = items
      BY <1>2 DEF PricesMade
    <3>2. PricesOf(snapshots'[n].items) = post[p].seen
      BY <1>1, <3>1
    <3>4. Fulfilled(p)'
      BY <1>5, <3>1, <3>2 DEF Fulfilled, PricesOf
    <3>5. post[p].expected <= priceRev' \/ post[p].op = "restorePrices"
      <4>1. post[p].expected \in Nat /\ priceRev \in Nat
        BY <1>0, PublicFacts, RequestFacts DEF PublicTypes
      <4> QED BY <1>4, <2>1, <2>3, <4>1 DEF Foreseen
    <3>6. post[p].op = "restorePrices" => post[p].source \in DOMAIN snapshots' /\ snapshots'[post[p].source] = snapshots[post[p].source]
      BY <1>8, <2>1, <2>3 DEF Foreseen, Grown
    <3>7. post[p].op = "restorePrices" => PricesOf(snapshots'[post[p].source].items) = post[p].seen
      BY <2>1, <2>3, <3>6 DEF Foreseen
    <3>8. Foreseen(p)'
      BY <1>5, <1>10, <3>5, <3>6, <3>7 DEF Foreseen, PricesOf
    <3> QED BY <2>3, <3>4, <3>8
  <2> QED BY <2>2, <2>3
<1>12. Authored'
  <2>1. \A q \in Posts : (post'[q].op = "none" => post'[q].made = 0) /\ (post[q].made # 0 => post'[q].made # 0)
    BY <1>0, <1>5, <1>10 DEF Authored
  <2>2. p \in Posts => post[p].made = 0 /\ post'[p].made # 0
    BY <1>5, <1>10
  <2>3. \A s \in DOMAIN snapshots' : s \in DOMAIN snapshots \/ (s = n /\ snapshots'[s].by = p)
    BY <1>2 DEF PricesMade
  <2>4. \A r \in DOMAIN releases' : r \in DOMAIN releases \/ (r = Len(releases) + 1 /\ releases'[r].by = p)
    BY <1>2 DEF PricesMade
  <2>5. p \in Authors /\ n \notin DOMAIN snapshots /\ Len(releases) + 1 \notin DOMAIN releases
    BY <1>2 DEF Authors, PricesMade
  <2> HIDE DEF n
  <2> QED BY <1>8, <2>1, <2>2, <2>3, <2>4, <2>5, AuthoredGrows
<1>13. Sound'
  <2>1. \A m \in Active' : ~model'[m].removed
    BY <1>6 DEF Active, RowRestored
  <2>2. \A m \in DOMAIN Items' : ~model'[m].removed
    BY <1>1, <1>2, <1>6 DEF PricesMade, RowRestored
  <2> QED BY <1>2, <2>1, <2>2 DEF Sound, PricesMade, Sanitary, UnsafeLink, UnsafeHTML, Blank, Fits
<1>14. Counted'
  BY <1>0, <1>6 DEF Counted, RowRestored
<1>15. Checked'
  <2>1. ASSUME NEW m \in Listed, NEW t \in Nat, CheckedBy(m, t) PROVE CheckedBy(m, t)'
    <3>1. m \in DOMAIN items => items[m].checked <= t
      BY <1>1, <2>1
    <3>2. model'[m].checked <= t
      BY <1>6, <2>1, <3>1 DEF CheckedBy, RowRestored
    <3>3. ASSUME NEW s \in DOMAIN snapshots', m \in DOMAIN snapshots'[s].items PROVE snapshots'[s].items[m].checked <= t
      BY <1>2, <2>1, <3>1, <3>3 DEF PricesMade, Grown, CheckedBy
    <3> QED BY <1>0, <2>1, <3>2, <3>3 DEF CheckedBy
  <2> QED BY <1>0, <2>1, CheckedStays
<1> QED BY <1>9, <1>11, <1>12, <1>13, <1>14, <1>15 DEF PublicInv

LEMMA RefusesOrRepeats ==
    ASSUME PublicInv, NEW p \in Posts, Refuses(p) \/ Repeats(p), UNCHANGED monitorVars
    PROVE  PublicInv'
<1>1. UNCHANGED <<draftVars, publishedVars, monitorVars>>
  BY DEF Refuses, Repeats
<1>2. PICK a \in {"none", "made", "refused"} : post' = [post EXCEPT ![p] = [post[p] EXCEPT !.answer = a]]
  <2>1. CASE Refuses(p)
    <3>1. post' = [post EXCEPT ![p] = [post[p] EXCEPT !.answer = "refused"]]
      BY <2>1 DEF Refuses
    <3> QED BY <3>1
  <2>2. CASE Repeats(p)
    <3>1. \E a \in {"none", "made"} : post' = [post EXCEPT ![p] = [post[p] EXCEPT !.answer = a]]
      BY <2>2 DEF Repeats, Answered
    <3> QED BY <3>1
  <2> QED BY <2>1, <2>2
<1> QED BY <1>1, <1>2, AnswersOnly

LEMMA PostsPricesStep == ASSUME PublicInv, NEW p \in Posts, PostsPrices(p) PROVE PublicInv'
<1>1. post[p].op \in {"prices", "restorePrices"} /\ UNCHANGED monitorVars
  BY DEF PostsPrices
<1>2. Refuses(p) \/ Repeats(p) \/ (Prepared(p) /\ ~Found(p) /\ PricesAccepted(p) /\ CommitsPrices(p))
  BY DEF PostsPrices
<1> QED BY <1>1, <1>2, RefusesOrRepeats, CommitsPricesStep DEF Found

\* A release of content: clean, beside the current prices, and what the request saw.
ContentMade(p, e) ==
    /\ e \in Release /\ e.price = current.price /\ e.by = p /\ Sanitary(e.body)
    /\ \A m \in e.featured : m \in DOMAIN Items /\ Items[m].price # 0
    /\ post[p].op = "content" =>
           /\ [body |-> e.body, featured |-> e.featured, news |-> e.news] = post[p].seen
           /\ e.price = post[p].source
    /\ post[p].op = "restoreContent" => e.body = post[p].seen

LEMMA ContentPublished ==
    ASSUME PublicInv, NEW p \in Posts, post[p].op \in {"content", "restoreContent"}, post[p].made = 0,
           ContentAccepted(p), CommitsContent(p)
    PROVE  \E e : ContentMade(p, e) /\ releases' = Append(releases, e)
<1>0. PublicTypes /\ Foreseen(p) /\ Sound /\ current.price \in Nat /\ p \in Authors
  BY PublicFacts DEF PublicInv, Authors
<1>1. CASE post[p].op = "content"
  <2> DEFINE e == [price |-> current.price, body |-> content.body, featured |-> content.featured, news |-> Shown, by |-> p]
  <2>1. releases' = Append(releases, e)
    BY <1>1 DEF CommitsContent
  <2>2. Shown \subseteq News \cup Questions
    BY DEF Shown
  <2>3. content.body \in Bodies /\ content.featured \in SUBSET Listed
    BY <1>0 DEF PublicTypes, ContentType
  <2>4. e \in Release /\ e.price = current.price /\ e.by = p
    BY <1>0, <2>2, <2>3 DEF Release
  <2>5. post[p].source = current.price /\ post[p].expected = content.rev /\ ContentValid
    BY <1>1 DEF ContentAccepted
  <2>6. Sanitary(e.body)
    BY <2>5 DEF ContentValid
  <2>7. \A m \in e.featured : m \in DOMAIN Items /\ Items[m].price # 0
    BY <2>5 DEF ContentValid, Eligible
  <2>8. [body |-> e.body, featured |-> e.featured, news |-> e.news] = post[p].seen
    BY <1>0, <1>1, <2>5 DEF Foreseen, ContentSeen
  <2> HIDE DEF e
  <2> QED BY <1>1, <2>1, <2>4, <2>5, <2>6, <2>7, <2>8 DEF ContentMade
<1>2. CASE post[p].op = "restoreContent"
  <2> DEFINE r == post[p].source
             x == current.price
             y == {n \in releases[r].news : content.news[n] # "gone"}
             z == releases[r].featured \cap Active
             a == [releases[r] EXCEPT !.price = x]
             b == [a EXCEPT !.news = y]
             c == [b EXCEPT !.featured = z]
             e == [c EXCEPT !.by = p]
  <2>0. r \in DOMAIN releases /\ releases[r] \in Release /\ post[p].seen = releases[r].body
    BY <1>0, <1>2, PublicFacts DEF Foreseen
  <2>1. RestoredContent(r) = c
    BY <2>0 DEF RestoredContent, Release
  <2>2. releases' = Append(releases, e)
    BY <1>2, <2>1 DEF CommitsContent
  <2>3. y \in SUBSET (News \cup Questions) /\ z \in SUBSET Listed /\ x \in Nat
    BY <1>0, <2>0 DEF Release
  <2>4. c.featured \subseteq {m \in Eligible : Items[m].price # 0}
    BY <1>2, <2>1 DEF ContentAccepted
  <2> HIDE DEF y, z
  <2>5. a \in Release /\ a.body = releases[r].body /\ a.price = x
    BY <2>0, <2>3 DEF Release
  <2> HIDE DEF a
  <2>6. b \in Release /\ b.body = releases[r].body /\ b.price = x
    BY <2>3, <2>5 DEF Release
  <2> HIDE DEF b
  <2>7. c \in Release /\ c.body = releases[r].body /\ c.price = x
    BY <2>3, <2>6 DEF Release
  <2> HIDE DEF c
  <2>8. e \in Release /\ e.body = releases[r].body /\ e.price = x /\ e.by = p /\ e.featured = c.featured
    BY <1>0, <2>7 DEF Release
  <2> HIDE DEF e
  <2>9. Sanitary(e.body)
    BY <1>0, <2>0, <2>8 DEF Sound
  <2>10. \A m \in e.featured : m \in DOMAIN Items /\ Items[m].price # 0
    BY <2>4, <2>8 DEF Eligible
  <2> QED BY <1>2, <2>0, <2>2, <2>8, <2>9, <2>10 DEF ContentMade
<1> QED BY <1>1, <1>2

LEMMA CommitsContentStep ==
    ASSUME PublicInv, NEW p \in Posts, post[p].op \in {"content", "restoreContent"}, post[p].made = 0,
           ContentAccepted(p), CommitsContent(p), UNCHANGED monitorVars
    PROVE  PublicInv'
<1> DEFINE l == Len(releases) + 1
<1>0. /\ PublicTypes /\ Sound /\ Counted /\ Checked /\ Authored /\ Foreseen(p)
      /\ UNCHANGED <<model, priceRev, snapshots, looked, seenAt, monitor, lease, intent, missed, budget>>
      /\ current.price # 0 /\ current' = [current EXCEPT !.content = l]
  BY DEF PublicInv, CommitsContent, ContentAccepted, monitorVars
<1>1. PICK e : ContentMade(p, e) /\ releases' = Append(releases, e)
  BY ContentPublished
<1>2. /\ releases \in Seq(Release) /\ Len(releases) \in Nat /\ DOMAIN releases = 1..Len(releases) /\ l \in Nat /\ l # 0
      /\ current \in [price : 0..Len(snapshots), content : 0..Len(releases)] /\ Len(snapshots) \in Nat
      /\ post[p] \in Request /\ post \in [Posts -> Request]
  BY <1>0, PublicFacts DEF PublicTypes
<1>3. /\ releases' \in Seq(Release) /\ Len(releases') = l /\ DOMAIN releases' = 1..l /\ releases'[l] = e /\ e \in Release
      /\ \A i \in DOMAIN releases : releases'[i] = releases[i] /\ i \in DOMAIN releases'
      /\ \A i \in DOMAIN releases' : i \in DOMAIN releases \/ i = l
  BY <1>1, <1>2, Appended DEF ContentMade
<1>4. /\ l \notin DOMAIN releases /\ current'.price = current.price /\ current'.content = l
      /\ current' \in [price : 0..Len(snapshots'), content : 0..Len(releases')]
  BY <1>0, <1>2, <1>3
<1>5. /\ post' \in [Posts -> Request] /\ post'[p].op = post[p].op /\ post'[p].expected = post[p].expected
      /\ post'[p].source = post[p].source /\ post'[p].seen = post[p].seen /\ post'[p].made = l
      /\ \A q \in Posts : q # p => post'[q] = post[q]
  <2>1. PICK x \in {"none", "made"} : post' = [post EXCEPT ![p] = [[post[p] EXCEPT !.made = l] EXCEPT !.answer = x]]
    BY DEF CommitsContent, Answered
  <2> DEFINE a == [post[p] EXCEPT !.made = l]
             row == [a EXCEPT !.answer = x]
  <2>2. post' = [post EXCEPT ![p] = row]
    BY <2>1
  <2> HIDE DEF l
  <2>3. a \in Request /\ a.op = post[p].op /\ a.expected = post[p].expected /\ a.source = post[p].source /\ a.seen = post[p].seen
        /\ a.made = l
    BY <1>2 DEF Request
  <2> HIDE DEF a
  <2>4. row \in Request /\ row.op = post[p].op /\ row.expected = post[p].expected /\ row.source = post[p].source
        /\ row.seen = post[p].seen /\ row.made = l
    BY <2>3 DEF Request
  <2> HIDE DEF row
  <2> QED BY <1>2, <2>2, <2>4
<1>6. content' \in ContentType /\ (content' = content \/ content'.rev = content.rev + 1)
  <2>0. content \in ContentType
    BY <1>0 DEF PublicTypes
  <2>1. CASE post[p].op = "content"
    BY <2>0, <2>1 DEF CommitsContent
  <2>2. CASE post[p].op = "restoreContent"
    <3> DEFINE x == content.rev + 1
               y == releases[post[p].source].body
               a == [content EXCEPT !.rev = x]
               b == [a EXCEPT !.body = y]
               c == [b EXCEPT !.reviewed = TRUE]
    <3>1. x \in Nat /\ y \in Bodies
      BY <1>0, <2>0, <2>2, PublicFacts DEF Foreseen, Release, ContentType
    <3>2. content' = c
      BY <2>0, <2>2 DEF CommitsContent, ContentType
    <3> HIDE DEF y
    <3>3. a \in ContentType /\ a.rev = x
      BY <2>0, <3>1 DEF ContentType
    <3> HIDE DEF a
    <3>4. b \in ContentType /\ b.rev = x
      BY <3>1, <3>3 DEF ContentType
    <3> HIDE DEF b
    <3>5. c \in ContentType /\ c.rev = x
      BY <3>4 DEF ContentType
    <3> HIDE DEF c
    <3> QED BY <3>2, <3>5
  <2> QED BY <2>1, <2>2
<1>7. Grown
  BY <1>0, <1>3 DEF Grown
<1>8. Revised
  <2>1. priceRev \in Nat /\ content.rev \in Nat /\ content'.rev \in Nat
    BY <1>0, <1>6 DEF PublicTypes, ContentType
  <2>2. PricesOf(Draft)' = PricesOf(Draft)
    BY <1>0 DEF PricesOf, Draft, Active
  <2>3. content' = content => ContentSeen' = ContentSeen
    BY DEF ContentSeen, Shown
  <2>4. (content'.rev = content.rev /\ ContentSeen' = ContentSeen) \/ content'.rev > content.rev
    BY <1>6, <2>1, <2>3
  <2> QED BY <1>0, <2>1, <2>2, <2>4 DEF Revised
<1>9. PublicTypes'
  BY <1>0, <1>3, <1>4, <1>5, <1>6 DEF PublicTypes
<1>10. ASSUME NEW q \in Posts PROVE Foreseen(q)' /\ Fulfilled(q)'
  <2>1. Foreseen(q) /\ Fulfilled(q)
    BY DEF PublicInv
  <2>2. CASE q # p
    <3>1. SameRequest(q)
      BY <1>5, <2>2 DEF SameRequest
    <3> QED BY <1>0, <1>7, <1>8, <2>1, <3>1, RequestStays
  <2>3. CASE q = p
    <3>1. Fulfilled(p)'
      BY <1>1, <1>3, <1>5, <1>2 DEF Fulfilled, ContentMade
    <3>2. post[p].op = "content" => post[p].expected <= content'.rev
      <4>1. post[p].expected \in Nat /\ content.rev \in Nat
        BY <1>0, <1>2, RequestFacts DEF PublicTypes, ContentType
      <4> QED BY <1>0, <1>6, <4>1 DEF Foreseen
    <3>3. post[p].op = "restoreContent" => post[p].source \in DOMAIN releases' /\ releases'[post[p].source].body = post[p].seen
      BY <1>0, <1>3 DEF Foreseen
    <3>4. Foreseen(p)'
      BY <1>2, <1>5, <3>2, <3>3 DEF Foreseen
    <3> QED BY <2>3, <3>1, <3>4
  <2> QED BY <2>2, <2>3
<1>11. Authored'
  <2>1. \A q \in Posts : (post'[q].op = "none" => post'[q].made = 0) /\ (post[q].made # 0 => post'[q].made # 0)
    BY <1>0, <1>2, <1>5 DEF Authored
  <2>2. p \in Posts => post[p].made = 0 /\ post'[p].made # 0
    BY <1>2, <1>5
  <2>3. \A r \in DOMAIN releases' : r \in DOMAIN releases \/ (r = l /\ releases'[r].by = p)
    BY <1>1, <1>3 DEF ContentMade
  <2>4. p \in Authors /\ 0 \notin DOMAIN snapshots /\ \A s \in DOMAIN snapshots' : s \in DOMAIN snapshots
    BY <1>0, PublicFacts DEF Authors
  <2> HIDE DEF l
  <2> QED BY <1>4, <1>7, <2>1, <2>2, <2>3, <2>4, AuthoredGrows
<1>12. Sound'
  <2>1. Items' = Items
    BY <1>0, <1>4 DEF Items
  <2>2. \A r \in DOMAIN releases' : Sanitary(releases'[r].body)
    BY <1>0, <1>1, <1>3 DEF Sound, ContentMade
  <2>3. releases'[current'.content].price = current'.price
    BY <1>1, <1>3, <1>4 DEF ContentMade
  <2>4. Fits(current.content, Items)'
    BY <1>1, <1>3, <1>4, <2>1 DEF Fits, ContentMade
  <2>5. Active' = Active
    BY <1>0 DEF Active
  <2> QED BY <1>0, <2>1, <2>2, <2>3, <2>4, <2>5 DEF Sound, Sanitary, UnsafeLink, UnsafeHTML, Blank, Fits
<1>13. Counted'
  BY <1>0 DEF Counted, Exists
<1>14. Checked'
  BY <1>0 DEF Checked, CheckedBy
<1> QED BY <1>9, <1>10, <1>11, <1>12, <1>13, <1>14 DEF PublicInv

LEMMA PostsContentStep == ASSUME PublicInv, NEW p \in Posts, PostsContent(p) PROVE PublicInv'
<1>1. post[p].op \in {"content", "restoreContent"} /\ UNCHANGED monitorVars
  BY DEF PostsContent
<1>2. Refuses(p) \/ Repeats(p) \/ (~Found(p) /\ ContentAccepted(p) /\ CommitsContent(p))
  BY DEF PostsContent
<1> QED BY <1>1, <1>2, RefusesOrRepeats, CommitsContentStep DEF Found

----------------------------------------------------------------------------
(* The monitor *)

\* A run moves on and the lease changes hands; the holder's observation is its own or the newest.
LEMMA MonitorMoves ==
    ASSUME PublicInv, UNCHANGED <<draftVars, publishedVars, post, budget, seenAt, missed>>, intent' = intent \/ intent' = TRUE,
           monitor' \in [Monitors -> Watch], lease' \in [owner : Monitors \cup {NoAuthor}, until : {"ahead", "edge", "past"}],
           looked' = looked \/ looked' = looked + 1,
           \A w \in Monitors : /\ monitor'[w].time <= looked'
                               /\ lease'.owner = w /\ monitor'[w].at = "observed"
                                    => (lease.owner = w /\ monitor'[w] = monitor[w]) \/ monitor'[w].time = looked + 1
    PROVE  PublicInv'
<1>0. /\ UNCHANGED <<model, priceRev, content, snapshots, releases, current, post, seenAt, missed, budget>>
      /\ PublicTypes /\ Authored /\ Sound /\ Counted /\ Checked
  BY DEF PublicInv, draftVars, publishedVars
<1>1. looked \in Nat /\ looked' \in Nat /\ looked <= looked'
  BY <1>0 DEF PublicTypes
<1>2. PublicTypes'
  BY <1>0, <1>1 DEF PublicTypes
<1>3. \A p \in Posts : Foreseen(p)' /\ Fulfilled(p)'
  <2>1. Grown
    BY <1>0 DEF Grown
  <2>2. Revised
    BY <1>0 DEF Revised, PublicTypes, ContentType, PricesOf, Draft, Active, ContentSeen, Shown
  <2>3. \A p \in Posts : SameRequest(p) /\ Foreseen(p) /\ Fulfilled(p)
    BY <1>0 DEF SameRequest, PublicInv
  <2> QED BY <1>0, <2>1, <2>2, <2>3, RequestStays
<1>4. Authored' /\ Sound' /\ Counted'
  BY <1>0 DEF Authored, Sound, Active, Items, Fits, Sanitary, UnsafeLink, UnsafeHTML, Blank, Counted, Exists
<1>5. Checked'
  <2>1. ASSUME NEW m \in Listed, NEW t \in Nat, CheckedBy(m, t) PROVE CheckedBy(m, t)'
    BY <1>0, <2>1 DEF CheckedBy
  <2>2. ASSUME NEW m \in Listed PROVE CheckedBy(m, looked')
    <3>1. CheckedBy(m, looked) /\ m \in Listed
      BY <1>0 DEF Checked
    <3>2. /\ model[m].checked \in Nat /\ seenAt[m] \in Nat
          /\ \A s \in DOMAIN snapshots : m \in DOMAIN snapshots[s].items => snapshots[s].items[m].checked \in Nat
      <4>1. \A s \in DOMAIN snapshots : snapshots[s].items \in ItemsType
        BY <1>0, PublicFacts DEF Snapshot
      <4> QED BY <1>0, <4>1, ItemsAreItems DEF PublicTypes, Row
    <3> QED BY <1>1, <3>1, <3>2 DEF CheckedBy
  <2>3. \A m \in Listed : CheckedBy(m, looked)'
    BY <1>0, <1>1, <2>2 DEF CheckedBy
  <2>4. ASSUME NEW w \in Monitors, lease'.owner = w, monitor'[w].at = "observed"
        PROVE  monitor'[w].time # 0 /\ \A m \in Listed : CheckedBy(m, monitor[w].time - 1)'
    <3>1. CASE lease.owner = w /\ monitor'[w] = monitor[w]
      <4>1. monitor[w].time # 0 /\ \A m \in Listed : CheckedBy(m, monitor[w].time - 1)
        BY <1>0, <2>4, <3>1 DEF Checked
      <4> QED BY <1>0, <3>1, <4>1 DEF CheckedBy
    <3>2. CASE monitor'[w].time = looked + 1
      <4>1. monitor'[w].time # 0 /\ monitor'[w].time - 1 = looked
        BY <1>1, <3>2
      <4> QED BY <1>0, <4>1 DEF Checked, CheckedBy
    <3> QED BY <2>4, <3>1, <3>2
  <2> QED BY <2>3, <2>4 DEF Checked
<1> QED BY <1>2, <1>3, <1>4, <1>5 DEF PublicInv

LEMMA RunFacts ==
    ASSUME PublicInv
    PROVE  /\ looked \in Nat /\ NoAuthor \notin Monitors
           /\ monitor \in [Monitors -> Watch] /\ NoRun \in Watch /\ NoRun.time = 0 /\ NoRun.at = "idle"
           /\ lease \in [owner : Monitors \cup {NoAuthor}, until : {"ahead", "edge", "past"}]
           /\ \A w \in Monitors : monitor[w] \in Watch /\ monitor[w].time \in Nat /\ monitor[w].time <= looked
           /\ \A w \in Monitors : Freed(w) \in [owner : Monitors \cup {NoAuthor}, until : {"ahead", "edge", "past"}]
           /\ \A w, v \in Monitors : Freed(w).owner = v => v # w /\ lease.owner = v
BY PublicationAssumption DEF PublicInv, PublicTypes, Checked, Watch, NoRun, Freed

LEMMA AcquiresStep == ASSUME PublicInv, NEW w \in Monitors, Acquires(w) PROVE PublicInv'
<1> DEFINE run == [NoRun EXCEPT !.at = "fetch"]
<1>1. run \in Watch /\ run.time = 0 /\ run.at = "fetch"
  BY DEF NoRun, Watch
<1>2. monitor' = [monitor EXCEPT ![w] = run] /\ lease' = [owner |-> w, until |-> "ahead"] /\ looked' = looked
      /\ UNCHANGED <<draftVars, publishedVars, post, budget, seenAt, intent, missed>>
  BY DEF Acquires
<1> HIDE DEF run
<1>3. monitor' \in [Monitors -> Watch] /\ monitor'[w] = run /\ \A v \in Monitors : v # w => monitor'[v] = monitor[v]
  BY <1>1, <1>2, RunFacts
<1>4. lease'.owner = w /\ lease' \in [owner : Monitors \cup {NoAuthor}, until : {"ahead", "edge", "past"}]
  BY <1>2
<1>5. \A v \in Monitors : monitor'[v].time <= looked' /\ (lease'.owner = v => monitor'[v].at # "observed")
  BY <1>1, <1>2, <1>3, <1>4, RunFacts
<1> QED BY <1>2, <1>3, <1>4, <1>5, MonitorMoves

LEMMA AgesStep == ASSUME PublicInv, Ages PROVE PublicInv'
<1>1. lease' \in [owner : Monitors \cup {NoAuthor}, until : {"ahead", "edge", "past"}] /\ lease'.owner = lease.owner
  BY RunFacts DEF Ages
<1>2. monitor' = monitor /\ looked' = looked /\ UNCHANGED <<draftVars, publishedVars, post, budget, seenAt, intent, missed>>
  BY DEF Ages
<1>3. monitor' \in [Monitors -> Watch] /\ \A v \in Monitors : monitor'[v].time <= looked'
  BY <1>2, RunFacts
<1> QED BY <1>1, <1>2, <1>3, MonitorMoves

\* A run is given up: with its lease, if it holds it, or without.
LEMMA RunDropped ==
    ASSUME PublicInv, NEW w \in Monitors, monitor' = [monitor EXCEPT ![w] = NoRun], lease' \in {lease, Freed(w)},
           UNCHANGED <<draftVars, publishedVars, post, budget, looked, seenAt, intent, missed>>
    PROVE  PublicInv'
<1>1. monitor' \in [Monitors -> Watch] /\ monitor'[w] = NoRun /\ \A v \in Monitors : v # w => monitor'[v] = monitor[v]
  BY RunFacts
<1>2. lease' \in [owner : Monitors \cup {NoAuthor}, until : {"ahead", "edge", "past"}]
  BY RunFacts
<1>3. \A v \in Monitors : monitor'[v].time <= looked'
  BY <1>1, RunFacts
<1>4. \A v \in Monitors : lease'.owner = v /\ monitor'[v].at = "observed" => lease.owner = v /\ monitor'[v] = monitor[v]
  BY <1>1, RunFacts
<1> QED BY <1>1, <1>2, <1>3, <1>4, MonitorMoves

LEMMA KeepsLeaseStep == ASSUME PublicInv, NEW w \in Monitors, KeepsLease(w) PROVE PublicInv'
<1>0. UNCHANGED <<draftVars, publishedVars, post, budget, looked, seenAt, intent, missed>>
  BY DEF KeepsLease
<1>1. CASE lease' = [lease EXCEPT !.until = "ahead"] /\ UNCHANGED monitor
  <2>1. lease' \in [owner : Monitors \cup {NoAuthor}, until : {"ahead", "edge", "past"}] /\ lease'.owner = lease.owner
    BY <1>1, RunFacts
  <2>2. monitor' \in [Monitors -> Watch] /\ \A v \in Monitors : monitor'[v].time <= looked'
    BY <1>0, <1>1, RunFacts
  <2> QED BY <1>0, <1>1, <2>1, <2>2, MonitorMoves
<1>2. CASE monitor' = [monitor EXCEPT ![w] = NoRun] /\ lease' = Freed(w)
  BY <1>0, <1>2, RunDropped
<1> QED BY <1>1, <1>2 DEF KeepsLease

LEMMA EndsStep == ASSUME PublicInv, NEW w \in Monitors, Ends(w) \/ Dies(w) PROVE PublicInv'
BY RunDropped DEF Ends, Dies

LEMMA FetchesStep == ASSUME PublicInv, NEW w \in Monitors, Fetches(w) PROVE PublicInv'
<1>1. PICK A \in SUBSET Listed : monitor' = [monitor EXCEPT ![w] = [at |-> "observed", time |-> looked + 1, absent |-> A]]
  BY DEF Fetches
<1> DEFINE run == [at |-> "observed", time |-> looked + 1, absent |-> A]
<1>2. run \in Watch /\ run.time = looked + 1
  BY RunFacts DEF Watch
<1>3. monitor' = [monitor EXCEPT ![w] = run] /\ lease' = lease /\ looked' = looked + 1
      /\ UNCHANGED <<draftVars, publishedVars, post, budget, seenAt, intent, missed>>
  BY <1>1 DEF Fetches
<1> HIDE DEF run
<1>4. monitor' \in [Monitors -> Watch] /\ monitor'[w] = run /\ \A v \in Monitors : v # w => monitor'[v] = monitor[v]
  BY <1>2, <1>3, RunFacts
<1>5. \A v \in Monitors : monitor'[v].time <= looked'
  BY <1>2, <1>3, <1>4, RunFacts
<1>6. \A v \in Monitors : lease'.owner = v => (lease.owner = v /\ monitor'[v] = monitor[v]) \/ monitor'[v].time = looked + 1
  BY <1>2, <1>3, <1>4
<1>7. lease' \in [owner : Monitors \cup {NoAuthor}, until : {"ahead", "edge", "past"}]
  BY <1>3, RunFacts
<1> QED BY <1>3, <1>4, <1>5, <1>6, <1>7, MonitorMoves

Absences(m, run) == IF m \notin run.absent THEN 0 ELSE IF Due(m, run.time) /\ m \in Active THEN missed[m] + 1 ELSE missed[m]

\* What the holder's observation makes of a model: it is later than every check, so nothing is left uncounted.
LEMMA Judgement ==
    ASSUME PublicInv, NEW m \in Listed, NEW run \in Watch, run.time # 0, CheckedBy(m, run.time - 1)
    PROVE  /\ Due(m, run.time) <=> Exists(m)
           /\ Judged(m, run) \in Row /\ Judged(m, run).price = model[m].price /\ Judged(m, run).checked <= run.time
           /\ Struck(m, run) => /\ m \in Active /\ missed[m] + 1 >= StrikeLimit /\ Absences(m, run) = missed[m] + 1
                                /\ Judged(m, run).status = "inactive"
           /\ ~Struck(m, run) => Judged(m, run).status = model[m].status /\ Judged(m, run).removed = model[m].removed
           /\ Absences(m, run) \in Nat
           /\ Judged(m, run).status = "none" => Judged(m, run).strikes = 0
           /\ Judged(m, run).status \notin {"none", "deleted"} => Judged(m, run).strikes <= Absences(m, run)
<1>0. /\ model[m] \in Row /\ missed[m] \in Nat
      /\ model[m].status = "active" => ~model[m].removed
      /\ model[m].status = "none" => model[m].strikes = 0
      /\ Exists(m) => model[m].strikes <= missed[m]
  BY RowFacts
<1>0a. StrikeLimit \in Nat /\ run.time \in Nat /\ model[m].strikes \in Nat /\ model[m].checked \in Nat
  BY <1>0, PublicationAssumption DEF Row, Watch
<1>1. Due(m, run.time) <=> Exists(m)
  BY <1>0a DEF Due, CheckedBy
<1>2. model[m].checked <= run.time
  BY <1>0a DEF CheckedBy
<1>3. CASE ~Exists(m)
  <2>1. Judged(m, run) = model[m] /\ ~Struck(m, run)
    BY <1>1, <1>3 DEF Judged, Struck
  <2>2. Absences(m, run) \in Nat
    BY <1>0 DEF Absences
  <2> QED BY <1>0, <1>1, <1>2, <1>3, <2>1, <2>2 DEF Exists
<1>4. CASE Exists(m) /\ m \notin run.absent
  <2> DEFINE t == run.time
             a == [model[m] EXCEPT !.strikes = 0]
             row == [a EXCEPT !.checked = t]
  <2>1. Judged(m, run) = row
    BY <1>0, <1>1, <1>4 DEF Judged, SeenAgain, Row
  <2>2. ~Struck(m, run) /\ Absences(m, run) = 0
    BY <1>4 DEF Struck, Absences
  <2> HIDE DEF t
  <2>3. a \in Row /\ a.status = model[m].status /\ a.removed = model[m].removed /\ a.price = model[m].price /\ a.strikes = 0
    BY <1>0 DEF Row
  <2> HIDE DEF a
  <2>4. row \in Row /\ row.status = model[m].status /\ row.removed = model[m].removed /\ row.price = model[m].price
        /\ row.strikes = 0 /\ row.checked = t
    BY <1>0a, <2>3 DEF Row, t
  <2> HIDE DEF row
  <2> QED BY <1>0a, <1>1, <2>1, <2>2, <2>4 DEF t
<1>5. CASE Exists(m) /\ m \in run.absent /\ m \notin Active
  <2>1. Judged(m, run) = model[m] /\ ~Struck(m, run) /\ Absences(m, run) = missed[m]
    BY <1>1, <1>5 DEF Judged, Struck, Absences
  <2> QED BY <1>0, <1>1, <1>2, <1>5, <2>1 DEF Exists
<1>6. CASE Exists(m) /\ m \in run.absent /\ m \in Active
  <2> DEFINE t == run.time
             k == model[m].strikes + 1
             a == [model[m] EXCEPT !.strikes = k]
             b == [a EXCEPT !.checked = t]
             c == [b EXCEPT !.status = "inactive"]
             d == [c EXCEPT !.removed = TRUE]
  <2>1. Judged(m, run) = (IF Struck(m, run) THEN d ELSE b)
    BY <1>0, <1>1, <1>6 DEF Judged, Row
  <2>2. Absences(m, run) = missed[m] + 1
    BY <1>1, <1>6 DEF Absences
  <2>3. k \in Nat /\ t \in Nat /\ k <= missed[m] + 1 /\ (Struck(m, run) => k >= StrikeLimit)
    BY <1>0, <1>0a, <1>6 DEF Struck
  <2>3a. Struck(m, run) => missed[m] + 1 >= StrikeLimit
    BY <1>0, <1>0a, <2>3
  <2>3b. model[m].status = "active"
    BY <1>6 DEF Active
  <2> HIDE DEF k
  <2>4. a \in Row /\ a.status = model[m].status /\ a.removed = model[m].removed /\ a.price = model[m].price /\ a.strikes = k
    BY <1>0, <2>3 DEF Row
  <2> HIDE DEF a
  <2>5. b \in Row /\ b.status = model[m].status /\ b.removed = model[m].removed /\ b.price = model[m].price /\ b.strikes = k
        /\ b.checked = t
    BY <2>3, <2>4 DEF Row
  <2> HIDE DEF b
  <2>6. c \in Row /\ c.status = "inactive" /\ c.price = model[m].price /\ c.strikes = k /\ c.checked = t
    BY <2>5 DEF Row
  <2> HIDE DEF c
  <2>7. d \in Row /\ d.status = "inactive" /\ d.price = model[m].price /\ d.strikes = k /\ d.checked = t
    BY <2>6 DEF Row
  <2> HIDE DEF d
  <2>8. t <= run.time /\ Absences(m, run) \in Nat
    BY <1>0, <1>0a, <2>2
  <2>9. CASE Struck(m, run)
    BY <1>1, <1>6, <2>1, <2>2, <2>3, <2>3a, <2>7, <2>8, <2>9
  <2>10. CASE ~Struck(m, run)
    BY <1>1, <2>1, <2>2, <2>3, <2>3b, <2>5, <2>8, <2>10
  <2> QED BY <2>9, <2>10
<1> QED BY <1>3, <1>4, <1>5, <1>6

\* The holder's run is later than every check.
LEMMA HolderObserved ==
    ASSUME PublicInv, NEW w \in Monitors, monitor[w].at = "observed", lease.owner = w
    PROVE  /\ monitor[w] \in Watch /\ monitor[w].time # 0 /\ monitor[w].time \in Nat /\ monitor[w].time <= looked
           /\ \A m \in Listed : CheckedBy(m, monitor[w].time - 1)
BY RunFacts DEF PublicInv, Checked

LEMMA ObservesStep == ASSUME PublicInv, NEW w \in Monitors, Observes(w) PROVE PublicInv'
<1> DEFINE run == monitor[w]
<1>0. /\ PublicTypes /\ Authored /\ Sound /\ Counted /\ Checked /\ looked \in Nat
      /\ UNCHANGED <<content, snapshots, releases, current, post, budget, looked, lease>>
  BY RunFacts DEF PublicInv, Observes, publishedVars
<1>1. run.at = "observed" /\ lease.owner = w
  BY DEF Observes, Owns
<1>2. /\ run \in Watch /\ run.time # 0 /\ run.time \in Nat /\ run.time <= looked
      /\ \A m \in Listed : CheckedBy(m, run.time - 1)
  BY <1>1, HolderObserved
<1>3. /\ model' = [m \in Listed |-> Judged(m, run)]
      /\ seenAt' = [m \in Listed |-> IF m \in run.absent THEN seenAt[m] ELSE run.time]
      /\ missed' = [m \in Listed |-> Absences(m, run)]
      /\ IF \E m \in Listed : Struck(m, run) THEN priceRev' = priceRev + 1 ELSE UNCHANGED priceRev
      /\ intent' = Pending(ToRemove(run))
      /\ monitor' = [monitor EXCEPT ![w].at = IF ToRemove(run) = {} THEN "done" ELSE "remove"]
  BY DEF Observes, Absences, Advanced
<1>4. PICK st \in {"done", "remove"} : monitor' = [monitor EXCEPT ![w] = [monitor[w] EXCEPT !.at = st]]
  BY <1>3
<1>5. /\ monitor' \in [Monitors -> Watch] /\ monitor'[w].at # "observed" /\ monitor'[w].time = run.time
      /\ \A v \in Monitors : v # w => monitor'[v] = monitor[v]
  <2> DEFINE row == [monitor[w] EXCEPT !.at = st]
  <2>1. row \in Watch /\ row.at = st /\ row.time = run.time
    BY <1>2 DEF Watch
  <2>2. monitor' = [monitor EXCEPT ![w] = row]
    BY <1>4
  <2> HIDE DEF row
  <2> QED BY <2>1, <2>2, RunFacts
<1> HIDE DEF run
<1>6. \A m \in Listed :
           /\ model'[m] \in Row /\ model'[m].price = model[m].price /\ model'[m].checked <= run.time
           /\ Struck(m, run) => m \in Active /\ model'[m].status = "inactive"
           /\ ~Struck(m, run) => model'[m].status = model[m].status /\ model'[m].removed = model[m].removed
           /\ missed'[m] \in Nat
           /\ model'[m].status = "none" => model'[m].strikes = 0
           /\ model'[m].status \notin {"none", "deleted"} => model'[m].strikes <= missed'[m]
  <2> TAKE m \in Listed
  <2>1. model'[m] = Judged(m, run) /\ missed'[m] = Absences(m, run) /\ CheckedBy(m, run.time - 1)
    BY <1>2, <1>3
  <2> QED BY <1>2, <2>1, Judgement
<1>7. PublicTypes'
  <2>1. model' \in [Listed -> Row] /\ missed' \in [Listed -> Nat]
    <3>1. model' = [m \in Listed |-> model'[m]] /\ missed' = [m \in Listed |-> missed'[m]]
      BY <1>3
    <3> QED BY <1>6, <3>1
  <2>2. seenAt' \in [Listed -> Nat]
    BY <1>0, <1>2, <1>3 DEF PublicTypes
  <2>3. priceRev' \in Nat
    BY <1>0, <1>3 DEF PublicTypes
  <2>4. intent' \in BOOLEAN
    BY <1>0, <1>3 DEF PublicTypes, Pending
  <2> QED BY <1>0, <1>5, <2>1, <2>2, <2>3, <2>4 DEF PublicTypes
<1>8. \A p \in Posts : Foreseen(p)' /\ Fulfilled(p)'
  <2>1. Grown
    BY <1>0 DEF Grown
  <2>2. priceRev \in Nat /\ priceRev' \in Nat /\ content.rev \in Nat /\ content'.rev = content.rev
    BY <1>0, <1>3 DEF PublicTypes, ContentType
  <2>3. ContentSeen' = ContentSeen
    BY <1>0 DEF ContentSeen, Shown
  <2>4. (priceRev' = priceRev /\ PricesOf(Draft)' = PricesOf(Draft)) \/ priceRev' > priceRev
    <3>1. CASE \E m \in Listed : Struck(m, run)
      BY <1>3, <2>2, <3>1
    <3>2. CASE ~\E m \in Listed : Struck(m, run)
      <4>1. Active' = Active
        BY <1>6, <3>2 DEF Active
      <4>2. DOMAIN Draft = Active /\ DOMAIN Draft' = Active /\ \A m \in Active : Draft[m].price = Draft'[m].price
        BY <1>6, <4>1 DEF Draft, Active
      <4>3. PricesOf(Draft)' = PricesOf(Draft)
        BY <4>2 DEF PricesOf
      <4> QED BY <1>3, <3>2, <4>3
    <3> QED BY <3>1, <3>2
  <2>5. Revised
    BY <2>2, <2>3, <2>4 DEF Revised
  <2>6. \A p \in Posts : SameRequest(p) /\ Foreseen(p) /\ Fulfilled(p)
    BY <1>0 DEF SameRequest, PublicInv
  <2> QED BY <1>0, <2>1, <2>5, <2>6, RequestStays
<1>9. Authored'
  BY <1>0 DEF Authored
<1>10. Sound'
  <2>1. Items' = Items /\ DOMAIN Items \subseteq Listed
    BY <1>0, ItemsCurrent, ItemsAreItems DEF Items
  <2>2. ASSUME NEW m \in Active' PROVE ~model'[m].removed
    <3>1. m \in Listed /\ model'[m].status = "active"
      BY DEF Active
    <3>2. ~Struck(m, run) /\ m \in Active
      BY <1>6, <3>1 DEF Active
    <3> QED BY <1>0, <1>6, <3>1, <3>2 DEF Sound
  <2>3. ASSUME NEW m \in DOMAIN Items, model'[m].removed PROVE intent'
    <3>1. CASE Struck(m, run)
      BY <1>3, <2>1, <3>1 DEF Pending, ToRemove
    <3>2. CASE ~Struck(m, run)
      BY <1>0, <1>3, <1>6, <2>1, <2>3, <3>2 DEF Sound, Pending
    <3> QED BY <3>1, <3>2
  <2>4. Fits(current.content, Items)' <=> Fits(current.content, Items)
    BY <1>0, <2>1 DEF Fits
  <2> QED BY <1>0, <2>1, <2>2, <2>3, <2>4 DEF Sound, Sanitary, UnsafeLink, UnsafeHTML, Blank
<1>11. Counted'
  BY <1>6 DEF Counted, Exists
<1>12. Checked'
  <2>1. ASSUME NEW m \in Listed PROVE CheckedBy(m, looked)'
    <3>1. CheckedBy(m, looked)
      BY <1>0 DEF Checked
    <3>2. model'[m].checked \in Nat /\ seenAt[m] \in Nat
      BY <1>0, <1>6 DEF PublicTypes, Row
    <3>3. model'[m].checked <= looked /\ seenAt'[m] <= looked
      BY <1>0, <1>2, <1>3, <1>6, <3>1, <3>2 DEF CheckedBy
    <3> QED BY <1>0, <3>1, <3>3 DEF CheckedBy
  <2>2. \A v \in Monitors : monitor'[v].time <= looked'
    BY <1>0, <1>2, <1>5, RunFacts
  <2>3. \A v \in Monitors : ~(lease'.owner = v /\ monitor'[v].at = "observed")
    BY <1>0, <1>1, <1>5
  <2> QED BY <2>1, <2>2, <2>3 DEF Checked
<1> QED BY <1>7, <1>8, <1>9, <1>10, <1>11, <1>12 DEF PublicInv

LEMMA PublishesSafetyStep == ASSUME PublicInv, NEW w \in Monitors, PublishesSafety(w) PROVE PublicInv'
<1>0. /\ PublicTypes /\ Authored /\ Sound /\ Counted /\ Checked
      /\ UNCHANGED <<model, priceRev, content, post, budget, looked, seenAt, lease, missed>>
      /\ current.content # 0 => Fits(current.content, Draft)
      /\ intent' = FALSE
  BY DEF PublicInv, PublishesSafety, draftVars
<1>1. Draft \in ItemsType /\ DOMAIN Draft = Active /\ \A m \in Active : m \in Listed /\ Draft[m].checked = model[m].checked
  BY <1>0, DraftType DEF Draft
<1>2. PricesMade(Draft, NoAuthor)
  BY <1>0, <1>1, PricesPublished DEF PublishesSafety, Authors
<1>3. /\ monitor' \in [Monitors -> Watch] /\ monitor'[w].at = "done" /\ monitor'[w].time = monitor[w].time
      /\ \A v \in Monitors : v # w => monitor'[v] = monitor[v]
  <2> DEFINE row == [monitor[w] EXCEPT !.at = "done"]
  <2>1. row \in Watch /\ row.at = "done" /\ row.time = monitor[w].time
    BY RunFacts DEF Watch
  <2>2. monitor' = [monitor EXCEPT ![w] = row]
    BY DEF PublishesSafety
  <2> HIDE DEF row
  <2> QED BY <2>1, <2>2, RunFacts
<1>4. PublicTypes'
  BY <1>0, <1>2, <1>3 DEF PublicTypes, PricesMade
<1>5. \A p \in Posts : Foreseen(p)' /\ Fulfilled(p)'
  <2>1. Grown
    BY <1>2 DEF PricesMade
  <2>2. Revised
    BY <1>0 DEF Revised, PublicTypes, ContentType, PricesOf, Draft, Active, ContentSeen, Shown
  <2>3. \A p \in Posts : SameRequest(p) /\ Foreseen(p) /\ Fulfilled(p)
    BY <1>0 DEF SameRequest, PublicInv
  <2> QED BY <1>0, <2>1, <2>2, <2>3, RequestStays
<1>6. Authored'
  <2>1. NoAuthor \in Authors /\ NoAuthor \notin Posts
    BY PublicationAssumption DEF Authors
  <2>2. \A p \in Posts : (post'[p].op = "none" => post'[p].made = 0) /\ (post[p].made # 0 => post'[p].made # 0)
    BY <1>0 DEF Authored
  <2>3. \A s \in DOMAIN snapshots' : s \in DOMAIN snapshots \/ (s = Len(snapshots) + 1 /\ snapshots'[s].by = NoAuthor)
    BY <1>2 DEF PricesMade
  <2>4. \A r \in DOMAIN releases' : r \in DOMAIN releases \/ (r = Len(releases) + 1 /\ releases'[r].by = NoAuthor)
    BY <1>2 DEF PricesMade
  <2>5. Grown /\ Len(snapshots) + 1 \notin DOMAIN snapshots /\ Len(releases) + 1 \notin DOMAIN releases
    BY <1>2 DEF PricesMade
  <2> QED BY <2>1, <2>2, <2>3, <2>4, <2>5, AuthoredGrows
<1>7. Sound'
  <2>1. Active' = Active /\ \A m \in Active : ~model'[m].removed
    BY <1>0 DEF Active, Sound
  <2>2. Items' = Draft
    BY <1>2 DEF PricesMade
  <2>3. \A m \in DOMAIN Items' : ~model'[m].removed
    BY <1>1, <2>1, <2>2
  <2> QED BY <1>2, <2>1, <2>3 DEF Sound, PricesMade, Sanitary, UnsafeLink, UnsafeHTML, Blank, Fits
<1>8. Counted'
  BY <1>0 DEF Counted, Exists
<1>9. Checked'
  <2>1. ASSUME NEW m \in Listed, NEW t \in Nat, CheckedBy(m, t) PROVE CheckedBy(m, t)'
    <3>1. ASSUME NEW s \in DOMAIN snapshots', m \in DOMAIN snapshots'[s].items PROVE snapshots'[s].items[m].checked <= t
      BY <1>1, <1>2, <2>1, <3>1 DEF PricesMade, Grown, CheckedBy
    <3> QED BY <1>0, <2>1, <3>1 DEF CheckedBy
  <2>2. looked \in Nat /\ \A v \in Monitors : monitor[v].time \in Nat
    BY RunFacts
  <2>3. \A m \in Listed : CheckedBy(m, looked)'
    BY <1>0, <2>1, <2>2 DEF Checked
  <2>4. \A v \in Monitors : monitor'[v].time <= looked'
    BY <1>0, <1>3, RunFacts
  <2>5. ASSUME NEW v \in Monitors, lease'.owner = v, monitor'[v].at = "observed"
        PROVE  monitor'[v].time # 0 /\ \A m \in Listed : CheckedBy(m, monitor[v].time - 1)'
    <3>1. monitor'[v] = monitor[v]
      BY <1>3, <2>5
    <3>2. monitor[v].time # 0 /\ \A m \in Listed : CheckedBy(m, monitor[v].time - 1)
      BY <1>0, <2>5, <3>1 DEF Checked
    <3>3. monitor[v].time - 1 \in Nat
      BY <2>2, <3>2
    <3>4. \A m \in Listed : CheckedBy(m, monitor[v].time - 1) /\ monitor'[v].time = monitor[v].time
      BY <3>1, <3>2
    <3>5. ASSUME NEW t \in Nat, t = monitor[v].time - 1 PROVE \A m \in Listed : CheckedBy(m, t)'
      BY <2>1, <3>4, <3>5
    <3> QED BY <3>1, <3>2, <3>3, <3>5 DEF CheckedBy
  <2> QED BY <2>3, <2>4, <2>5 DEF Checked, CheckedBy
<1> QED BY <1>4, <1>5, <1>6, <1>7, <1>8, <1>9 DEF PublicInv

LEMMA SafetyFailsStep == ASSUME PublicInv, NEW w \in Monitors, SafetyFails(w) PROVE PublicInv'
<1>1. UNCHANGED <<draftVars, publishedVars, post, budget, looked, seenAt, lease, missed>> /\ intent' = TRUE
  BY DEF SafetyFails
<1>2. /\ monitor' \in [Monitors -> Watch] /\ monitor'[w].at = "done" /\ monitor'[w].time = monitor[w].time
      /\ \A v \in Monitors : v # w => monitor'[v] = monitor[v]
  <2> DEFINE row == [monitor[w] EXCEPT !.at = "done"]
  <2>1. row \in Watch /\ row.at = "done" /\ row.time = monitor[w].time
    BY RunFacts DEF Watch
  <2>2. monitor' = [monitor EXCEPT ![w] = row]
    BY DEF SafetyFails
  <2> HIDE DEF row
  <2> QED BY <2>1, <2>2, RunFacts
<1>3. \A v \in Monitors : /\ monitor'[v].time <= looked'
                          /\ lease'.owner = v /\ monitor'[v].at = "observed" => lease.owner = v /\ monitor'[v] = monitor[v]
  BY <1>1, <1>2, RunFacts
<1>4. lease' \in [owner : Monitors \cup {NoAuthor}, until : {"ahead", "edge", "past"}]
  BY <1>1, RunFacts
<1> QED BY <1>1, <1>2, <1>3, <1>4, MonitorMoves

----------------------------------------------------------------------------
(* The invariant *)

LEMMA PublicUnchanged == ASSUME PublicInv, UNCHANGED publicVars PROVE PublicInv'
<1>1. UNCHANGED <<draftVars, publishedVars, post, budget, looked, seenAt, intent, missed, lease, monitor>>
  BY DEF publicVars, monitorVars
<1>2. /\ monitor' \in [Monitors -> Watch] /\ lease' \in [owner : Monitors \cup {NoAuthor}, until : {"ahead", "edge", "past"}]
      /\ \A v \in Monitors : monitor'[v].time <= looked'
  BY <1>1, RunFacts
<1>3. \A v \in Monitors : lease'.owner = v => lease.owner = v /\ monitor'[v] = monitor[v]
  BY <1>1
<1> QED BY <1>1, <1>2, <1>3, MonitorMoves

LEMMA PublicStep == ASSUME PublicInv, [PublicNext]_publicVars PROVE PublicInv'
<1>1. CASE ModelPages \/ PricePages \/ ContentPages \/ NewsPages \/ HomePages
  <2>1. PricePages => PublicInv'
    BY SavesPricesStep, PostsPricesStep DEF PricePages
  <2>2. ContentPages => PublicInv'
    BY SavesDraftStep, PostsContentStep DEF ContentPages
  <2> QED BY <1>1, <2>1, <2>2, ModelPagesStep, NewsPagesStep, HomePagesStep
<1>2. ASSUME NEW p \in Posts, Reviews(p) PROVE PublicInv'
  BY <1>2, ReviewsStep
<1>3. CASE Watches
  <2>1. ASSUME NEW w \in Monitors,
               Acquires(w) \/ KeepsLease(w) \/ Fetches(w) \/ Observes(w) \/ PublishesSafety(w) \/ SafetyFails(w) \/ Ends(w) \/ Dies(w)
        PROVE  PublicInv'
    BY <2>1, AcquiresStep, KeepsLeaseStep, FetchesStep, ObservesStep, PublishesSafetyStep, SafetyFailsStep, EndsStep
  <2> QED BY <1>3, <2>1, AgesStep DEF Watches
<1>4. CASE UNCHANGED publicVars
  BY <1>4, PublicUnchanged
<1> QED BY <1>1, <1>2, <1>3, <1>4 DEF PublicNext

LEMMA PublicStart == PublicInit => PublicInv
<1> SUFFICES ASSUME PublicInit PROVE PublicInv
  OBVIOUS
<1>1. /\ priceRev = 1 /\ content = [FirstContent EXCEPT !.reviewed = TRUE]
      /\ model \in [Listed -> {Unlisted, [Unlisted EXCEPT !.status = "active", !.price = MaxPrice]}]
      /\ post = [p \in Posts |-> NoPost] /\ looked = 0 /\ seenAt = [m \in Listed |-> 0]
      /\ monitor = [w \in Monitors |-> NoRun] /\ lease = [owner |-> NoAuthor, until |-> "past"] /\ intent = FALSE
      /\ missed = [m \in Listed |-> 0] /\ budget \in Budgets
  BY DEF PublicInit
<1>2. \A m \in Listed : /\ model[m] \in Row /\ ~model[m].removed /\ model[m].strikes = 0 /\ model[m].checked = 0
                        /\ model[m].status = "active" => model[m].price = MaxPrice
  <2> DEFINE a == [Unlisted EXCEPT !.status = "active"]
             row == [a EXCEPT !.price = MaxPrice]
  <2>0. MaxPrice \in 0..MaxPrice
    BY PublicationAssumption
  <2>1. Unlisted \in Row /\ ~Unlisted.removed /\ Unlisted.strikes = 0 /\ Unlisted.checked = 0 /\ Unlisted.status = "none"
    BY PublicationAssumption DEF Unlisted, Row
  <2>2. [Unlisted EXCEPT !.status = "active", !.price = MaxPrice] = row
    BY <2>1 DEF Row
  <2>3. a \in Row /\ ~a.removed /\ a.strikes = 0 /\ a.checked = 0
    BY <2>1 DEF Row
  <2> HIDE DEF a
  <2>4. row \in Row /\ ~row.removed /\ row.strikes = 0 /\ row.checked = 0 /\ row.price = MaxPrice
    BY <2>0, <2>3 DEF Row
  <2>5. model \in [Listed -> {Unlisted, row}]
    BY <1>1, <2>2
  <2> HIDE DEF row
  <2> QED BY <2>1, <2>4, <2>5
<1>3. model \in [Listed -> Row]
  BY <1>1, <1>2
<1>4. content \in ContentType
  BY <1>1, PublicationAssumption DEF FirstContent, ContentType
<1>5. NoPost \in Request /\ NoPost.op = "none" /\ NoPost.made = 0 /\ NoRun \in Watch /\ NoRun.time = 0 /\ NoRun.at = "idle"
  BY DEF NoPost, Request, Ask, Seen, NoRun, Watch
<1>6. post \in [Posts -> Request] /\ \A p \in Posts : post[p].op = "none" /\ post[p].made = 0
  BY <1>1, <1>5
<1>7. DOMAIN Draft = Active /\ Active \subseteq Listed /\ Draft \in ItemsType
      /\ \A m \in Active : Draft[m].price = MaxPrice /\ Draft[m].checked = 0
  <2>1. Active \subseteq Listed /\ \A m \in Active : model[m].price = MaxPrice /\ model[m].checked = 0
    BY <1>2 DEF Active
  <2>2. Draft \in [Active -> Item]
    BY <1>3, <2>1 DEF Draft, Item, Row
  <2> QED BY <2>1, <2>2 DEF ItemsType, Draft
<1> DEFINE Offline == snapshots = <<>> /\ releases = <<>> /\ current = NothingPublished
<1>8. \/ Offline
      \/ \E F \in SUBSET Active :
             /\ snapshots = <<[items |-> Draft, by |-> NoAuthor]>>
             /\ releases = <<[price |-> 1, body |-> "plain", featured |-> F, news |-> {}, by |-> NoAuthor]>>
             /\ current = [price |-> 1, content |-> 1]
  BY DEF PublicInit
<1>9. ASSUME /\ snapshots \in Seq(Snapshot) /\ releases \in Seq(Release)
             /\ current \in [price : 0..Len(snapshots), content : 0..Len(releases)]
             /\ current.content # 0 => current.price # 0
             /\ \A s, t \in DOMAIN snapshots : snapshots[s].by = NoAuthor /\ s = t
             /\ \A r, q \in DOMAIN releases : releases[r].by = NoAuthor /\ r = q /\ Sanitary(releases[r].body)
             /\ \A s \in DOMAIN snapshots : snapshots[s].items = Draft
             /\ current.content # 0 => releases[current.content].price = current.price /\ Fits(current.content, Items)
      PROVE  PublicInv
  <2>1. PublicTypes
    BY <1>1, <1>3, <1>4, <1>5, <1>6, <1>9 DEF PublicTypes
  <2>2. Authored
    BY <1>6, <1>9, PublicationAssumption DEF Authored
  <2>3. \A p \in Posts : Foreseen(p) /\ Fulfilled(p)
    BY <1>6 DEF Foreseen, Fulfilled
  <2>4. Sound
    <3>1. DOMAIN Items \subseteq Listed
      BY <2>1, ItemsCurrent, ItemsAreItems
    <3> QED BY <1>2, <1>7, <1>9, <3>1 DEF Sound
  <2>5. Counted
    BY <1>1, <1>2 DEF Counted
  <2>6. Checked
    <3>1. \A m \in Listed : CheckedBy(m, 0)
      BY <1>1, <1>2, <1>7, <1>9 DEF CheckedBy
    <3> QED BY <1>1, <1>5, <3>1 DEF Checked
  <2> QED BY <2>1, <2>2, <2>3, <2>4, <2>5, <2>6 DEF PublicInv
<1>10. CASE Offline
  <2>1. snapshots \in Seq(Snapshot) /\ releases \in Seq(Release) /\ Len(snapshots) = 0 /\ Len(releases) = 0
        /\ DOMAIN snapshots = {} /\ DOMAIN releases = {}
    BY <1>10
  <2>2. current.price = 0 /\ current.content = 0 /\ current \in [price : 0..Len(snapshots), content : 0..Len(releases)]
    BY <1>10, <2>1 DEF NothingPublished
  <2> QED BY <1>9, <2>1, <2>2
<1>11. ASSUME NEW F \in SUBSET Active, snapshots = <<[items |-> Draft, by |-> NoAuthor]>>,
              releases = <<[price |-> 1, body |-> "plain", featured |-> F, news |-> {}, by |-> NoAuthor]>>,
              current = [price |-> 1, content |-> 1]
       PROVE  PublicInv
  <2> DEFINE e == [items |-> Draft, by |-> NoAuthor]
             f == [price |-> 1, body |-> "plain", featured |-> F, news |-> {}, by |-> NoAuthor]
  <2>1. e \in Snapshot /\ f \in Release
    BY <1>7, PublicationAssumption DEF Snapshot, Release, Authors
  <2>2. e.items = Draft /\ e.by = NoAuthor /\ f.price = 1 /\ f.body = "plain" /\ f.featured = F /\ f.by = NoAuthor
    OBVIOUS
  <2>3. snapshots = <<e>> /\ releases = <<f>>
    BY <1>11
  <2> HIDE DEF e, f
  <2>4. /\ snapshots \in Seq(Snapshot) /\ releases \in Seq(Release) /\ Len(snapshots) = 1 /\ Len(releases) = 1
        /\ DOMAIN snapshots = {1} /\ DOMAIN releases = {1} /\ snapshots[1] = e /\ releases[1] = f
    BY <2>1, <2>3
  <2>5. current.price = 1 /\ current.content = 1 /\ current \in [price : 0..Len(snapshots), content : 0..Len(releases)]
    BY <1>11, <2>4
  <2>6. Items = Draft
    BY <2>2, <2>4, <2>5 DEF Items
  <2>7. Fits(current.content, Items)
    BY <1>7, <2>2, <2>4, <2>5, <2>6, PublicationAssumption DEF Fits
  <2>8. Sanitary(f.body)
    BY <2>2 DEF Sanitary, UnsafeLink, UnsafeHTML, Blank
  <2> QED BY <1>9, <2>2, <2>4, <2>5, <2>7, <2>8
<1> QED BY <1>8, <1>10, <1>11

\* Every reachable publication satisfies the invariant: the types; who made what; what a request saw
\* and what it made; the pair and the alert; strikes no more than absences; check times behind the
\* lease holder's observation (public_price_snapshot.go, public_content.go, upstream_price_monitor.go).
THEOREM PublicInvariant == PublicSpec => []PublicInv
<1>1. PublicInit => PublicInv
  BY PublicStart
<1>2. PublicInv /\ [PublicNext]_publicVars => PublicInv'
  BY PublicStep
<1> QED BY <1>1, <1>2, PTL DEF PublicSpec

\* What a request published is what Root had reviewed when asking for it, though drafts are edited and
\* the monitor removes and publishes in between (public_price_snapshot.go:401, public_content.go).
THEOREM PublicAsReviewed == PublicSpec => []AsReviewed
<1>1. PublicInv => AsReviewed
  <2> SUFFICES ASSUME PublicInv, NEW p \in Posts, post[p].made # 0
               PROVE  LET q == post[p] IN
                      CASE q.op \in {"prices", "restorePrices"} -> PricesOf(snapshots[q.made].items) = q.seen
                        [] q.op = "content" -> LET r == releases[q.made] IN
                                               [body |-> r.body, featured |-> r.featured, news |-> r.news] = q.seen /\ r.price = q.source
                        [] OTHER -> releases[q.made].body = q.seen
    BY DEF AsReviewed, Found
  <2>1. Fulfilled(p) /\ post[p].op \in Ask /\ post[p].op # "none"
    BY RequestFacts DEF PublicInv, PublicTypes, Authored
  <2>2. CASE post[p].op \in {"prices", "restorePrices"}
    BY <2>1, <2>2 DEF Fulfilled
  <2>3. CASE post[p].op = "content"
    BY <2>1, <2>3 DEF Fulfilled
  <2>4. CASE post[p].op = "restoreContent"
    BY <2>1, <2>4 DEF Fulfilled
  <2> QED BY <2>1, <2>2, <2>3, <2>4 DEF Ask
<1> QED BY <1>1, PublicInvariant, PTL

LEMMA AtMostOne ==
    ASSUME NEW S, \A x, y \in S : x = y
    PROVE  Cardinality(S) <= 1
<1>1. CASE S = {}
  BY <1>1, FS_EmptySet
<1>2. CASE S # {}
  <2>1. PICK x \in S : TRUE
    BY <1>2
  <2>2. S = {x}
    BY <2>1
  <2> QED BY <2>2, FS_Singleton
<1> QED BY <1>1, <1>2

\* A request sent again because its answer was lost makes nothing twice, a snapshot or a release
\* (findPublicPriceSnapshotReplay, findPublicContentReplay).
THEOREM PublicPublishedOnce == PublicSpec => []PublishedOnce
<1>1. PublicInv => PublishedOnce
  <2> SUFFICES ASSUME PublicInv, NEW p \in Posts
               PROVE  /\ Cardinality({s \in DOMAIN snapshots : snapshots[s].by = p}) <= 1
                      /\ Cardinality({r \in DOMAIN releases : releases[r].by = p}) <= 1
    BY DEF PublishedOnce
  <2>1. \A s, t \in {x \in DOMAIN snapshots : snapshots[x].by = p} : s = t
    BY DEF PublicInv, Authored
  <2>2. \A r, q \in {x \in DOMAIN releases : releases[x].by = p} : r = q
    BY DEF PublicInv, Authored
  <2> QED BY <2>1, <2>2, AtMostOne
<1> QED BY <1>1, PublicInvariant, PTL

\* The pointer names a pair made for each other, clean and priced, whichever of Root and the monitor
\* moved it last, and a removed model still published has its alert up (upstream_price_monitor.go:303).
THEOREM PublicPairStands == PublicSpec => []PairStands
<1>1. PublicInv => PairStands
  BY PublicFacts DEF PublicInv, Sound, PairStands
<1> QED BY <1>1, PublicInvariant, PTL

----------------------------------------------------------------------------
(* Removals *)

\* Nothing but an observation takes a model out.
RemovesNothing == \A m \in Listed : model'[m].removed => model[m].removed

LEMMA PagesRemoveNothing == ASSUME PublicInv, ModelPages \/ SavesPrices PROVE RemovesNothing
<1>0. model \in [Listed -> Row]
  BY DEF PublicInv, PublicTypes
<1>1. CASE ModelPages
  <2>1. PICK m \in Listed : Creates(m) \/ Updates(m) \/ Activates(m) \/ Deactivates(m) \/ Deletes(m)
    BY <1>1 DEF ModelPages
  <2>2. \E row : model' = [model EXCEPT ![m] = row] /\ (row.removed => model[m].removed)
    <3>0. model[m] \in Row
      BY <1>0
    <3>1. CASE Creates(m)
      BY <3>1 DEF Creates, Unlisted
    <3>2. CASE Updates(m)
      BY <3>0, <3>2 DEF Updates, Changes, Row
    <3>3. CASE Activates(m) \/ Deactivates(m) \/ Deletes(m)
      <4>1. PICK st : model' = [model EXCEPT ![m] = [model[m] EXCEPT !.status = st, !.removed = FALSE]]
        BY <3>3 DEF Activates, Deactivates, Deletes, Changes
      <4>2. [model[m] EXCEPT !.status = st, !.removed = FALSE].removed = FALSE
        BY <3>0 DEF Row
      <4> QED BY <4>1, <4>2
    <3> QED BY <2>1, <3>1, <3>2, <3>3
  <2> QED BY <1>0, <2>2 DEF RemovesNothing
<1>2. CASE SavesPrices
  <2>1. PICK f \in [{m \in Listed : Exists(m)} -> 0..MaxPrice] :
            model' = [m \in Listed |-> IF Exists(m) THEN [model[m] EXCEPT !.price = f[m]] ELSE model[m]]
    BY <1>2 DEF SavesPrices
  <2>2. \A m \in Listed : [model[m] EXCEPT !.price = f[m]].removed = model[m].removed
    BY <1>0 DEF Row
  <2> QED BY <2>1, <2>2 DEF RemovesNothing
<1> QED BY <1>1, <1>2

LEMMA RequestsRemoveNothing == ASSUME PublicInv, NEW p \in Posts, PostsPrices(p) \/ PostsContent(p) \/ Reviews(p) PROVE RemovesNothing
<1>1. CASE UNCHANGED model
  BY <1>1 DEF RemovesNothing
<1>2. CASE PostsPrices(p) /\ ~UNCHANGED model
  <2>1. Prepared(p) /\ CommitsPrices(p) /\ post[p].op \in {"prices", "restorePrices"}
    BY <1>2 DEF PostsPrices, Refuses, Repeats, draftVars
  <2>2. RestoresModels(Candidate(p)) /\ DOMAIN Candidate(p) \subseteq Active /\ Candidate(p) \in ItemsType
    BY <1>2, <2>1, CandidateFacts DEF CommitsPrices, Prepared
  <2> QED BY <2>2, RestoresModelsStep DEF RemovesNothing, RowRestored
<1>3. CASE PostsContent(p) \/ Reviews(p)
  <2>1. UNCHANGED model
    BY <1>3 DEF PostsContent, Reviews, Refuses, Repeats, CommitsContent, draftVars
  <2> QED BY <2>1 DEF RemovesNothing
<1> QED BY <1>1, <1>2, <1>3

LEMMA ContentRemovesNothing == ASSUME PublicInv, SavesDraft \/ NewsPages \/ HomePages PROVE RemovesNothing
<1>1. UNCHANGED model
  BY DEF SavesDraft, NewsPages, AddsNews, UpdatesNews, DeletesNews, HomePages, AddsFAQ, UpdatesFAQ, DeletesFAQ,
         SavesDocuments, ReplacesFeatured, HomeEntry, Edits
<1> QED BY <1>1 DEF RemovesNothing

LEMMA MonitorRemovesNothing ==
    ASSUME NEW w \in Monitors, Acquires(w) \/ KeepsLease(w) \/ Fetches(w) \/ PublishesSafety(w) \/ SafetyFails(w) \/ Ends(w) \/ Dies(w)
    PROVE  RemovesNothing
<1>1. UNCHANGED model
  BY DEF Acquires, KeepsLease, Fetches, PublishesSafety, SafetyFails, Ends, Dies, draftVars
<1> QED BY <1>1 DEF RemovesNothing

LEMMA ObservedRemovals ==
    ASSUME PublicInv, NEW w \in Monitors, Observes(w), NEW m \in Listed, model'[m].removed, ~model[m].removed
    PROVE  missed'[m] >= StrikeLimit
<1>1. monitor[w].at = "observed" /\ lease.owner = w
  BY DEF Observes, Owns
<1>2. model'[m] = Judged(m, monitor[w]) /\ missed'[m] = Absences(m, monitor[w])
  BY DEF Observes, Absences
<1>3. monitor[w] \in Watch /\ monitor[w].time # 0 /\ CheckedBy(m, monitor[w].time - 1)
  BY <1>1, HolderObserved
<1>4. Struck(m, monitor[w])
  BY <1>2, <1>3, Judgement
<1> QED BY <1>2, <1>3, <1>4, Judgement

\* A model the monitor removes was absent from StrikeLimit observations in a row, whoever held the lease,
\* whichever runs died and whatever check times were restored (upstream_price_monitor.go:208).
THEOREM PublicStrikesEarned == PublicSpec => StrikesEarned
<1> DEFINE Earned == \A m \in Listed : model'[m].removed /\ ~model[m].removed => missed'[m] >= StrikeLimit
<1>1. PublicInv /\ PublicNext => Earned
  <2> SUFFICES ASSUME PublicInv, PublicNext PROVE Earned
    OBVIOUS
  <2>1. RemovesNothing => Earned
    BY DEF RemovesNothing
  <2>2. ASSUME NEW w \in Monitors, Observes(w) PROVE Earned
    BY <2>2, ObservedRemovals
  <2> HIDE DEF Earned
  <2>3. CASE Watches
    <3>1. Ages => RemovesNothing
      BY DEF Ages, draftVars, RemovesNothing
    <3> QED BY <2>1, <2>2, <2>3, <3>1, MonitorRemovesNothing DEF Watches
  <2>4. CASE ModelPages \/ PricePages \/ ContentPages \/ NewsPages \/ HomePages \/ \E p \in Posts : Reviews(p)
    <3>1. RemovesNothing
      BY <2>4, PagesRemoveNothing, RequestsRemoveNothing, ContentRemovesNothing DEF PricePages, ContentPages
    <3> QED BY <2>1, <3>1
  <2> QED BY <2>3, <2>4 DEF PublicNext
<1>2. PublicInv /\ [PublicNext]_publicVars => [Earned]_publicVars
  BY <1>1
<1> QED BY <1>2, PublicInvariant, PTL DEF PublicSpec, StrikesEarned

(***************************************************************************)
(* Part 2: render jobs                                                     *)
(***************************************************************************)

Same(a, b) == a.gen = b.gen /\ a.fence = b.fence

Job == [state : {"none", "queued", "leased", "succeeded", "failed"}, fence : Nat, expires : Int,
        marker : Nat, updated : Nat]
Artifacts == [gen : Nat, fence : Nat, asof : Nat]
Work == [at : {"idle", "leased", "built", "failing", "active", "unsure", "refused"},
         gen : Nat, fence : Nat, asof : Nat, prev : Artifacts, since : Nat]

RenderTypes ==
    /\ now \in Nat /\ generation \in 0 .. MaxGeneration /\ due \in SUBSET (1 .. MaxDate)
    /\ job \in [1 .. MaxGeneration -> Job]
    /\ alert \in [1 .. MaxGeneration -> {"none", "active", "resolved"}]
    /\ link \in Artifacts /\ worker \in [Workers -> Work] /\ acked \in [gen : Nat, fence : Nat]

\* A fence that was given to somebody: 0 of generation 0 is nobody's.
Issued(a) ==
    /\ a.gen <= generation
    /\ IF a.gen = 0 THEN a.fence = 0 ELSE a.fence <= job[a.gen].fence

Engaged(w) == worker[w].at # "idle"

\* Every worker has a fence of its own, and no clock or number is ahead of where it came from.
Numbered ==
    /\ Issued(link) /\ Issued(acked)
    /\ \A w \in Workers : Issued(worker[w]) /\ Issued(worker[w].prev)
    /\ \A w \in Workers : Engaged(w) => worker[w].gen # 0
    /\ \A w, v \in Workers : Engaged(w) /\ Engaged(v) /\ Same(worker[w], worker[v]) => w = v
    /\ \A w \in Workers : Engaged(w) => ~Same(worker[w], acked)
    /\ \A g \in 1 .. MaxGeneration : job[g].marker <= now

\* The worker switched the link and does not know yet whether it stays.
Switched(w) == worker[w].at \in {"active", "unsure", "refused"}

\* The link is at least what anyone switched it to or was told, and so is what a newer worker would restore.
InOrder ==
    /\ \A w \in Workers : Switched(w) => ~Newer(worker[w], link) /\ Newer(worker[w], worker[w].prev)
    /\ \A w, u \in Workers : Switched(w) /\ Switched(u) /\ Newer(worker[u], worker[w])
                                => ~Newer(worker[w], worker[u].prev)
    /\ ~Newer(acked, link)
    /\ \A u \in Workers : Switched(u) /\ Newer(worker[u], acked) => ~Newer(acked, worker[u].prev)

\* Two artifacts of one fence are one artifact.
Twins ==
    /\ \A w \in Workers : Switched(w) /\ Same(link, worker[w]) => link.asof = worker[w].asof
    /\ \A w, u \in Workers : Switched(w) /\ Switched(u) /\ Same(worker[u].prev, worker[w])
                                => worker[u].prev.asof = worker[w].asof

\* The worker holds the lease of the current generation, running out or not.
Holder(w) ==
    worker[w].gen = generation /\ job[generation].state = "leased" /\ worker[w].fence = job[generation].fence

\* What the holder built is as new as its lease.
Dated == \A w \in Workers : worker[w].at \in {"built", "active"} /\ Holder(w) => worker[w].asof >= job[generation].marker

\* What the state of the current job says of its worker, of the link and of the alert.
Reported ==
    generation # 0 =>
        /\ job[generation].state = "succeeded" =>
              /\ alert[generation] # "active"
              /\ \A w \in Workers : Engaged(w) /\ worker[w].gen = generation /\ worker[w].fence = job[generation].fence
                                       => worker[w].at = "unsure"
              /\ <<generation, job[generation].fence>> \notin undone =>
                    /\ link.gen = generation /\ link.fence = job[generation].fence
                    /\ \A m \in Nat : m = job[generation].marker => link.asof >= Watermark(m)
        /\ job[generation].state = "failed" => alert[generation] = "active"

RenderInv == RenderTypes /\ Numbered /\ InOrder /\ Twins /\ Dated /\ Reported

----------------------------------------------------------------------------
(* Numbers *)

\* A set of naturals that is not empty has a least member.
LEMMA LeastOfNaturals ==
    ASSUME NEW T, T \subseteq Nat, T # {}
    PROVE  \E x \in T : \A y \in T : x <= y
<1> DEFINE R == OpToRel(<, Nat)
<1>1. IsWellFoundedOn(R, Nat)
  BY NatLessThanWellFounded
<1>2. \A x, y \in Nat : x < y => <<x, y>> \in R
  BY DEF OpToRel
<1> HIDE DEF R
<1>3. PICK x \in T : \A y \in T : ~(<<y, x>> \in R)
  BY <1>1, WFMin
<1>4. ASSUME NEW y \in T PROVE x <= y
  <2>1. x \in Nat /\ y \in Nat
    OBVIOUS
  <2>2. ~(<<y, x>> \in R)
    BY <1>3
  <2>3. ~(y < x)
    BY <1>2, <2>1, <2>2, Zenon
  <2> QED BY <2>1, <2>3
<1> QED BY <1>4

\* The watermark is a time: among the announcements in effect there is a latest.
LEMMA WatermarkType == ASSUME RenderTypes, RenderAssumption, NEW t PROVE Watermark(t) \in Nat
<1> DEFINE past == {d \in due : d <= t}
<1>1. CASE past = {}
  BY <1>1 DEF Watermark
<1>2. CASE past # {}
  <2>1. past \subseteq 1 .. MaxDate /\ MaxDate \in Nat
    BY DEF RenderTypes, RenderAssumption
  <2> DEFINE T == {MaxDate - d : d \in past}
  <2>2. T \subseteq Nat /\ T # {}
    BY <1>2, <2>1
  <2> HIDE DEF T
  <2>3. PICK x \in T : \A y \in T : x <= y
    BY <2>2, LeastOfNaturals
  <2>4. PICK d \in past : x = MaxDate - d
    BY DEF T
  <2>5. \A o \in past : o <= d
    <3> SUFFICES ASSUME NEW o \in past PROVE o <= d
      OBVIOUS
    <3>1. MaxDate - o \in T
      BY DEF T
    <3>2. x <= MaxDate - o
      BY <2>3, <3>1
    <3> QED BY <2>1, <2>4, <3>2
  <2>6. Watermark(t) = CHOOSE e \in past : \A o \in past : o <= e
    BY <1>2 DEF Watermark
  <2>7. Watermark(t) \in past
    BY <2>5, <2>6
  <2> QED BY <2>1, <2>7
<1> QED BY <1>1, <1>2

\* An attempt's number in its cycle, and the fence at which the next cycle starts.
LEMMA OrdinalType == ASSUME RenderAssumption, NEW f \in Int PROVE Ordinal(f) \in 1 .. MaxAttempts
<1>1. MaxAttempts \in Nat \ {0}
  BY DEF RenderAssumption
<1>2. (f - 1) % MaxAttempts \in 0 .. (MaxAttempts - 1)
  BY <1>1
<1> QED BY <1>1, <1>2 DEF Ordinal

LEMMA NextCycleGrows == ASSUME RenderAssumption, NEW f \in Nat PROVE NextCycle(f) \in Nat /\ NextCycle(f) >= f
<1>1. CASE f = 0
  BY <1>1 DEF NextCycle
<1>2. CASE f # 0
  <2>1. Ordinal(f) \in 1 .. MaxAttempts /\ MaxAttempts \in Nat
    BY <1>2, OrdinalType DEF RenderAssumption
  <2> QED BY <1>2, <2>1 DEF NextCycle
<1> QED BY <1>1, <1>2

----------------------------------------------------------------------------
(* What most steps leave alone *)

IssuedNext(a) ==
    /\ a.gen <= generation'
    /\ IF a.gen = 0 THEN a.fence = 0 ELSE a.fence <= job'[a.gen].fence

\* A job of a published generation never gets a smaller fence.
FencesGrow ==
    /\ generation' \in 0 .. MaxGeneration /\ generation <= generation'
    /\ \A g \in 1 .. generation : job'[g].fence \in Nat /\ job[g].fence <= job'[g].fence

\* A step that leaves the jobs alone moves no fence back.
LEMMA JobsStand == ASSUME RenderAssumption, RenderTypes, UNCHANGED <<generation, job>> PROVE FencesGrow
<1>1. generation \in 0 .. MaxGeneration /\ MaxGeneration \in Nat /\ job \in [1 .. MaxGeneration -> Job]
  BY DEF RenderTypes, RenderAssumption
<1>2. \A g \in 1 .. generation : job[g] \in Job
  BY <1>1
<1>3. \A g \in 1 .. generation : job[g].fence \in Nat
  BY <1>2 DEF Job
<1> QED BY <1>1, <1>3 DEF FencesGrow

LEMMA IssuedStays ==
    ASSUME RenderAssumption, RenderTypes, FencesGrow
    PROVE  \A a : a.gen \in Nat /\ a.fence \in Nat /\ Issued(a) => IssuedNext(a)
<1> SUFFICES ASSUME NEW a, a.gen \in Nat, a.fence \in Nat, Issued(a) PROVE IssuedNext(a)
  OBVIOUS
<1>1. generation \in Nat /\ generation' \in Nat /\ generation <= generation' /\ MaxGeneration \in Nat
      /\ generation <= MaxGeneration
  BY DEF RenderTypes, FencesGrow, RenderAssumption
<1>2. CASE a.gen = 0
  BY <1>1, <1>2 DEF Issued, IssuedNext
<1>3. CASE a.gen # 0
  <2>1. a.gen \in 1 .. generation /\ a.gen \in 1 .. MaxGeneration
    BY <1>1, <1>3 DEF Issued
  <2>2. job[a.gen].fence \in Nat
    BY <2>1 DEF RenderTypes, Job
  <2> QED BY <1>1, <1>3, <2>1, <2>2 DEF Issued, IssuedNext, FencesGrow
<1> QED BY <1>2, <1>3

\* A worker goes on with the fence it has, or is done; what is linked and told is what it had.
Carries ==
    /\ \A w \in Workers :
          \/ worker'[w] = Unengaged
          \/ /\ worker'[w].at # "idle" => Engaged(w)
             /\ Same(worker'[w], worker[w])
             /\ worker'[w].prev = worker[w].prev \/ worker'[w].prev = link
    /\ \/ link' = link
       \/ \E u \in Workers : Same(link', worker[u]) \/ link' = worker[u].prev
    /\ \/ acked' = acked
       \/ \E v \in Workers : Engaged(v) /\ Same(acked', worker[v]) /\ worker'[v] = Unengaged

LEMMA NumbersKept ==
    ASSUME RenderAssumption, RenderTypes, RenderTypes', Numbered, FencesGrow, Carries,
           \A g \in 1 .. MaxGeneration : job'[g].marker <= now'
    PROVE  Numbered'
<1>1. \A a : a.gen \in Nat /\ a.fence \in Nat /\ Issued(a) => IssuedNext(a)
  BY IssuedStays
<1>2. \A w \in Workers : /\ worker[w].gen \in Nat /\ worker[w].fence \in Nat /\ worker[w].prev \in Artifacts
                         /\ worker'[w].gen \in Nat /\ worker'[w].fence \in Nat /\ worker'[w].prev \in Artifacts
  BY DEF RenderTypes, Work
<1>3. /\ link \in Artifacts /\ link' \in Artifacts
      /\ acked.gen \in Nat /\ acked.fence \in Nat /\ acked'.gen \in Nat /\ acked'.fence \in Nat
  BY DEF RenderTypes
<1>4. \A a \in Artifacts : a.gen \in Nat /\ a.fence \in Nat
  BY DEF Artifacts
<1>5. IssuedNext(link)
  BY <1>1, <1>3, <1>4 DEF Numbered
<1>6. \A w \in Workers : IssuedNext(worker[w]) /\ IssuedNext(worker[w].prev)
  BY <1>1, <1>2, <1>4 DEF Numbered
<1>7. IssuedNext(link')
  BY <1>5, <1>6 DEF Carries, Same, IssuedNext
<1>8. IssuedNext(acked')
  BY <1>1, <1>3, <1>6 DEF Carries, Same, IssuedNext, Numbered
<1>9. 0 <= generation'
  BY DEF RenderTypes
<1>10. IssuedNext(Unengaged) /\ IssuedNext(Unengaged.prev) /\ Unengaged.at = "idle"
  BY <1>9 DEF Unengaged, Nothing, IssuedNext
<1>11. \A w \in Workers : IssuedNext(worker'[w]) /\ IssuedNext(worker'[w].prev)
  <2> SUFFICES ASSUME NEW w \in Workers PROVE IssuedNext(worker'[w]) /\ IssuedNext(worker'[w].prev)
    OBVIOUS
  <2>1. CASE worker'[w] = Unengaged
    BY <1>10, <2>1
  <2>2. CASE worker'[w] # Unengaged
    <3>1. Same(worker'[w], worker[w]) /\ (worker'[w].prev = worker[w].prev \/ worker'[w].prev = link)
      BY <2>2 DEF Carries
    <3>2. IssuedNext(worker'[w])
      BY <1>6, <3>1 DEF Same, IssuedNext
    <3> QED BY <1>5, <1>6, <3>1, <3>2
  <2> QED BY <2>1, <2>2
<1>12. \A w \in Workers : worker'[w].at # "idle" => Engaged(w) /\ Same(worker'[w], worker[w])
  BY <1>10 DEF Carries
<1>13. /\ \A w \in Workers : Engaged(w)' => worker'[w].gen # 0
       /\ \A w, v \in Workers : Engaged(w)' /\ Engaged(v)' /\ Same(worker'[w], worker'[v]) => w = v
  BY <1>12 DEF Engaged, Same, Numbered
<1>14. \A w \in Workers : Engaged(w)' => ~Same(worker'[w], acked')
  <2> SUFFICES ASSUME NEW w \in Workers, worker'[w].at # "idle" PROVE ~Same(worker'[w], acked')
    BY DEF Engaged
  <2>1. Engaged(w) /\ Same(worker'[w], worker[w])
    BY <1>12
  <2>2. CASE acked' = acked
    BY <2>1, <2>2 DEF Same, Numbered
  <2>3. CASE acked' # acked
    <3>1. PICK v \in Workers : Engaged(v) /\ Same(acked', worker[v]) /\ worker'[v] = Unengaged
      BY <2>3 DEF Carries
    <3>2. v # w
      BY <1>10, <3>1
    <3> QED BY <2>1, <3>1, <3>2 DEF Same, Numbered
  <2> QED BY <2>2, <2>3
<1> QED BY <1>7, <1>8, <1>11, <1>13, <1>14 DEF Numbered, Issued, IssuedNext

\* Nobody switches the link or is told.
Quiet ==
    /\ link' = link /\ acked' = acked
    /\ \A w \in Workers : Switched(w)' => /\ Switched(w) /\ Same(worker'[w], worker[w])
                                          /\ worker'[w].prev = worker[w].prev /\ worker'[w].asof = worker[w].asof

LEMMA QuietOrder == ASSUME InOrder, Twins, Quiet PROVE InOrder' /\ Twins'
<1>1. \A w \in Workers : Switched(w)' => /\ Switched(w) /\ worker'[w].gen = worker[w].gen /\ worker'[w].fence = worker[w].fence
                                         /\ worker'[w].prev = worker[w].prev /\ worker'[w].asof = worker[w].asof
  BY DEF Quiet, Same
<1>2. link' = link /\ acked' = acked
  BY DEF Quiet
<1>3. InOrder'
  BY <1>1, <1>2 DEF InOrder, Newer
<1>4. Twins'
  BY <1>1, <1>2 DEF Twins, Same
<1> QED BY <1>3, <1>4

----------------------------------------------------------------------------
(* Steps of a worker that touch neither the link nor the current job *)

\* A worker's state after a step in which only that worker moves.
LEMMA Alone ==
    ASSUME RenderTypes, NEW w \in Workers, NEW row, worker' = [worker EXCEPT ![w] = row]
    PROVE  worker'[w] = row /\ \A v \in Workers : v # w => worker'[v] = worker[v]
BY DEF RenderTypes

LEMMA ReadingsType == ASSUME RenderTypes, NEW w \in Workers, NEW t \in Readings(w) PROVE t \in Nat \ {0} /\ t <= now
BY DEF RenderTypes, Readings

LEMMA HolderIssued ==
    ASSUME RenderAssumption, RenderTypes, Numbered, NEW w \in Workers, Engaged(w)
    PROVE  worker[w].gen \in 1 .. generation /\ worker[w].gen \in 1 .. MaxGeneration
           /\ worker[w].fence <= job[worker[w].gen].fence
<1>1. worker[w].gen # 0 /\ Issued(worker[w]) /\ worker[w].gen \in Nat /\ generation \in Nat /\ MaxGeneration \in Nat
      /\ generation <= MaxGeneration
  BY DEF Numbered, RenderTypes, Work, RenderAssumption
<1> QED BY <1>1 DEF Issued

\* The clock moves; nobody else does.
LEMMA TicksStep == ASSUME RenderAssumption, RenderInv, Ticks PROVE RenderInv'
<1> USE DEF RenderInv
<1>1. now \in Nat /\ now' = now + 1 /\ UNCHANGED <<generation, due, job, alert, link, worker, acked, undone>>
  BY DEF Ticks, RenderTypes
<1>2. RenderTypes'
  BY <1>1 DEF RenderTypes
<1>3. \A g \in 1 .. MaxGeneration : job'[g].marker <= now'
  <2>1. job \in [1 .. MaxGeneration -> Job] /\ \A g \in 1 .. MaxGeneration : job[g].marker <= now
    BY DEF RenderTypes, Numbered
  <2>2. \A g \in 1 .. MaxGeneration : job[g].marker \in Nat
    BY <2>1 DEF Job
  <2> QED BY <1>1, <2>1, <2>2
<1>4. Numbered'
  BY <1>1, <1>3 DEF Numbered, Issued, Engaged
<1>5. InOrder' /\ Twins' /\ Dated' /\ Reported'
  BY <1>1 DEF InOrder, Twins, Dated, Holder, Reported, Switched, Engaged, Watermark
<1> QED BY <1>2, <1>4, <1>5

\* Projects, CompleteRefused, WorkerDies: one worker changes its step; the job and the link are as they were.
Privately(w) ==
    /\ UNCHANGED <<now, generation, due, job, alert, link, acked, undone>>
    /\ \A v \in Workers : v # w => worker'[v] = worker[v]
    /\ \/ worker'[w] = Unengaged
       \/ /\ Engaged(w) /\ Same(worker'[w], worker[w]) /\ worker'[w].prev = worker[w].prev
          /\ worker'[w].at \in {"built", "failing", "active", "refused"}
          /\ worker'[w].at \in {"active", "refused"} => Switched(w) /\ worker'[w].asof = worker[w].asof
          /\ worker'[w].at = "active" => worker[w].at = "active"
          /\ worker'[w].at = "built" => worker'[w].asof = now
          /\ worker[w].at # "unsure"

LEMMA PrivateStep ==
    ASSUME RenderAssumption, RenderInv, RenderTypes', NEW w \in Workers, Privately(w)
    PROVE  RenderInv'
<1> USE DEF RenderInv
<1>1. UNCHANGED <<now, generation, due, job, alert, link, acked, undone>>
  BY DEF Privately
<1>2. \A v \in Workers : v # w => worker'[v] = worker[v]
  BY DEF Privately
<1>3. FencesGrow
  BY <1>1, JobsStand
<1>4. Numbered'
  <2>1. \A v \in Workers :
           \/ worker'[v] = Unengaged
           \/ /\ worker'[v].at # "idle" => Engaged(v)
              /\ Same(worker'[v], worker[v]) /\ worker'[v].prev = worker[v].prev
    BY <1>2 DEF Privately, Engaged, Same
  <2>2. Carries
    BY <1>1, <2>1 DEF Carries
  <2> QED BY <1>1, <1>3, <2>2, NumbersKept DEF Numbered
<1>5. Quiet
  BY <1>1, <1>2 DEF Privately, Quiet, Switched, Same, Unengaged
<1>6. InOrder' /\ Twins'
  BY <1>5, QuietOrder
<1>7. Dated'
  <2> SUFFICES ASSUME NEW v \in Workers, worker'[v].at \in {"built", "active"}, Holder(v)'
               PROVE  worker'[v].asof >= job[generation].marker
    BY <1>1 DEF Dated
  <2>1. Same(worker'[v], worker[v]) => Holder(v)
    BY <1>1 DEF Holder, Same
  <2>2. CASE v # w
    BY <1>1, <1>2, <2>2 DEF Dated, Holder
  <2>3. CASE v = w /\ worker'[w].at = "built"
    <3>1. Same(worker'[w], worker[w]) /\ Engaged(w) /\ worker'[w].asof = now
      BY <2>3 DEF Privately, Unengaged
    <3>2. worker[w].gen = generation /\ worker[w].gen \in 1 .. MaxGeneration
      BY <2>1, <2>3, <3>1, HolderIssued DEF Holder
    <3>3. job[generation].marker <= now /\ job[generation].marker \in Nat /\ now \in Nat
      BY <3>2 DEF Numbered, RenderTypes, Job
    <3> QED BY <2>3, <3>1, <3>3
  <2>4. CASE v = w /\ worker'[w].at = "active"
    <3>1. Same(worker'[w], worker[w]) /\ worker'[w].asof = worker[w].asof /\ worker[w].at = "active"
      BY <2>4 DEF Privately, Unengaged
    <3> QED BY <2>1, <2>4, <3>1 DEF Dated
  <2> QED BY <2>2, <2>3, <2>4
<1>8. Reported'
  <2>0. \A m : Watermark(m)' = Watermark(m)
    BY <1>1 DEF Watermark
  <2> SUFFICES ASSUME generation # 0, job[generation].state = "succeeded", NEW v \in Workers, Engaged(v)',
                      worker'[v].gen = generation, worker'[v].fence = job[generation].fence
               PROVE  worker'[v].at = "unsure"
    BY <1>1, <2>0 DEF Reported
  <2>1. CASE v # w
    BY <1>2, <2>1 DEF Reported, Engaged
  <2>2. CASE v = w
    <3>1. Engaged(w) /\ Same(worker'[w], worker[w]) /\ worker[w].at # "unsure"
      BY <2>2 DEF Privately, Engaged, Unengaged
    <3> QED BY <2>2, <3>1 DEF Reported, Same
  <2> QED BY <2>1, <2>2
<1> QED BY <1>4, <1>6, <1>7, <1>8

LEMMA ProjectsStep == ASSUME RenderAssumption, RenderInv, NEW w \in Workers, Projects(w) PROVE RenderInv'
<1> USE DEF RenderInv
<1>1. worker[w].at = "leased" /\ UNCHANGED <<now, generation, due, job, alert, link, acked, undone>>
  BY DEF Projects
<1>2. PICK row : /\ worker' = [worker EXCEPT ![w] = row]
                 /\ \/ row = [worker[w] EXCEPT !.at = "built", !.asof = now, !.since = now]
                    \/ row = [worker[w] EXCEPT !.at = "failing", !.since = now]
  <2>1. CASE worker' = [worker EXCEPT ![w].at = "built", ![w].asof = now, ![w].since = now]
    <3> DEFINE a == [worker[w] EXCEPT !.at = "built", !.asof = now, !.since = now]
    <3>1. worker' = [worker EXCEPT ![w] = a]
      BY <2>1
    <3> QED BY <3>1
  <2>2. CASE worker' = [worker EXCEPT ![w].at = "failing", ![w].since = now]
    <3> DEFINE a == [worker[w] EXCEPT !.at = "failing", !.since = now]
    <3>1. worker' = [worker EXCEPT ![w] = a]
      BY <2>2
    <3> QED BY <3>1
  <2> QED BY <2>1, <2>2 DEF Projects
<1>3. worker[w] \in Work /\ now \in Nat
  BY DEF RenderTypes
<1>4. /\ row \in Work /\ row.gen = worker[w].gen /\ row.fence = worker[w].fence /\ row.prev = worker[w].prev
      /\ row.at \in {"built", "failing"} /\ (row.at = "built" => row.asof = now)
  BY <1>2, <1>3 DEF Work
<1>5. worker'[w] = row /\ \A v \in Workers : v # w => worker'[v] = worker[v]
  BY <1>2, Alone
<1>6. RenderTypes'
  BY <1>1, <1>2, <1>4 DEF RenderTypes
<1>7. Privately(w)
  BY <1>1, <1>4, <1>5 DEF Privately, Engaged, Same
<1> QED BY <1>6, <1>7, PrivateStep

LEMMA CompleteRefusedStep == ASSUME RenderAssumption, RenderInv, NEW w \in Workers, CompleteRefused(w) PROVE RenderInv'
<1> USE DEF RenderInv
<1>1. worker[w].at = "active" /\ UNCHANGED <<now, generation, due, job, alert, link, acked, undone>>
  BY DEF CompleteRefused
<1> DEFINE row == [worker[w] EXCEPT !.at = "refused"]
<1>2. worker' = [worker EXCEPT ![w] = row]
  BY DEF CompleteRefused
<1>3. worker[w] \in Work
  BY DEF RenderTypes
<1>4. /\ row \in Work /\ row.gen = worker[w].gen /\ row.fence = worker[w].fence /\ row.prev = worker[w].prev
      /\ row.at = "refused" /\ row.asof = worker[w].asof
  BY <1>3 DEF Work
<1> HIDE DEF row
<1>5. worker'[w] = row /\ \A v \in Workers : v # w => worker'[v] = worker[v]
  BY <1>2, Alone
<1>6. RenderTypes'
  BY <1>1, <1>2, <1>4 DEF RenderTypes
<1>7. Privately(w)
  BY <1>1, <1>4, <1>5 DEF Privately, Engaged, Same, Switched
<1> QED BY <1>6, <1>7, PrivateStep

LEMMA UnengagedType == Unengaged \in Work /\ Unengaged.at = "idle"
BY DEF Unengaged, Work, Nothing, Artifacts

\* A step of one worker keeps the types if its new row and the new link have theirs.
LEMMA RowTyped ==
    ASSUME RenderTypes, NEW w \in Workers, NEW row \in Work, worker' = [worker EXCEPT ![w] = row], link' \in Artifacts,
           UNCHANGED <<now, generation, due, job, alert, acked>>
    PROVE  RenderTypes'
<1>1. worker \in [Workers -> Work]
  BY DEF RenderTypes
<1>2. worker' \in [Workers -> Work]
  BY <1>1
<1> QED BY <1>2 DEF RenderTypes

LEMMA WorkerDiesStep == ASSUME RenderAssumption, RenderInv, NEW w \in Workers, WorkerDies(w) PROVE RenderInv'
<1> USE DEF RenderInv
<1>1. worker' = [worker EXCEPT ![w] = Unengaged] /\ UNCHANGED <<now, generation, due, job, alert, link, acked, undone>>
  BY DEF WorkerDies
<1>2. worker'[w] = Unengaged /\ \A v \in Workers : v # w => worker'[v] = worker[v]
  BY <1>1, Alone
<1>3. RenderTypes'
  BY <1>1, UnengagedType DEF RenderTypes
<1>4. Privately(w)
  BY <1>1, <1>2 DEF Privately
<1> QED BY <1>3, <1>4, PrivateStep

----------------------------------------------------------------------------
(* Switching and restoring the link *)

\* Whoever is switched is engaged, and nobody else has its fence.
LEMMA SwitchedAlone ==
    ASSUME Numbered, NEW w \in Workers, NEW v \in Workers, Engaged(w), Switched(v), v # w
    PROVE  ~Same(worker[v], worker[w])
BY DEF Numbered, Engaged, Switched

\* Ranks of fences are ordered like numbers.
LEMMA Ranks ==
    ASSUME NEW a, NEW b, NEW c, a.gen \in Nat, a.fence \in Nat, b.gen \in Nat, b.fence \in Nat, c.gen \in Nat, c.fence \in Nat
    PROVE  /\ Newer(a, b) \/ Same(a, b) \/ Newer(b, a)
           /\ ~(Newer(a, b) /\ Newer(b, a)) /\ ~(Newer(a, b) /\ Same(a, b))
           /\ Newer(a, b) /\ Newer(b, c) => Newer(a, c)
           /\ ~Newer(b, a) /\ Newer(b, c) => Newer(a, c)
           /\ Newer(a, b) /\ ~Newer(c, b) => Newer(a, c)
           /\ Same(a, b) => Same(b, a) /\ (Newer(a, c) <=> Newer(b, c)) /\ (Newer(c, a) <=> Newer(c, b))
BY DEF Newer, Same

LEMMA RankTypes ==
    ASSUME RenderTypes
    PROVE  /\ \A w \in Workers : /\ worker[w].gen \in Nat /\ worker[w].fence \in Nat
                                 /\ worker[w].prev.gen \in Nat /\ worker[w].prev.fence \in Nat
           /\ link.gen \in Nat /\ link.fence \in Nat /\ acked.gen \in Nat /\ acked.fence \in Nat
BY DEF RenderTypes, Work, Artifacts

LEMMA SwitchStep ==
    ASSUME RenderAssumption, RenderInv, NEW w \in Workers, worker[w].at = "built", MayReplace(w), link' = Artifact(w),
           worker' = [worker EXCEPT ![w].at = "active", ![w].prev = link, ![w].since = now],
           UNCHANGED <<now, generation, due, job, alert, acked, undone>>
    PROVE  RenderInv'
<1> USE DEF RenderInv
<1> DEFINE row == [worker[w] EXCEPT !.at = "active", !.prev = link, !.since = now]
<1>1. worker' = [worker EXCEPT ![w] = row]
  OBVIOUS
<1>2. worker[w] \in Work /\ now \in Nat /\ link \in Artifacts
  BY DEF RenderTypes
<1>3. /\ row \in Work /\ row.gen = worker[w].gen /\ row.fence = worker[w].fence /\ row.asof = worker[w].asof
      /\ row.prev = link /\ row.at = "active"
  BY <1>2 DEF Work
<1>4. /\ link' \in Artifacts /\ link'.gen = worker[w].gen /\ link'.fence = worker[w].fence /\ link'.asof = worker[w].asof
  BY <1>2 DEF Artifact, Artifacts, Work
<1>5. RenderTypes'
  BY <1>1, <1>3, <1>4 DEF RenderTypes
<1>6. worker'[w] = row /\ \A v \in Workers : v # w => worker'[v] = worker[v]
  BY <1>1, Alone
<1> HIDE DEF row
<1>7. FencesGrow
  BY JobsStand
<1>8. Engaged(w) /\ Newer(worker[w], link)
  BY DEF Engaged, MayReplace
<1>9. Numbered'
  <2>1. \A v \in Workers :
           /\ worker'[v].at # "idle" => Engaged(v)
           /\ Same(worker'[v], worker[v]) /\ (worker'[v].prev = worker[v].prev \/ worker'[v].prev = link)
    BY <1>3, <1>6, <1>8 DEF Engaged, Same
  <2>2. Same(link', worker[w])
    BY <1>4 DEF Same
  <2>3. Carries
    BY <2>1, <2>2 DEF Carries
  <2> QED BY <1>5, <1>7, <2>3, NumbersKept DEF Numbered
<1>10. /\ \A v \in Workers : v # w => (Switched(v)' <=> Switched(v)) /\ ~(Switched(v) /\ Same(worker[v], worker[w]))
       /\ Same(link', worker[w]) /\ Same(worker'[w], worker[w]) /\ worker'[w].prev = link /\ ~Switched(w)
  BY <1>3, <1>4, <1>6, <1>8, SwitchedAlone DEF Switched, Same
<1>11. \A v \in Workers : v # w /\ Switched(v)' => Switched(v) /\ worker'[v] = worker[v] /\ Newer(worker[w], worker[v])
  <2> SUFFICES ASSUME NEW v \in Workers, v # w, Switched(v)' PROVE Switched(v) /\ worker'[v] = worker[v] /\ Newer(worker[w], worker[v])
    OBVIOUS
  <2>1. Switched(v) /\ worker'[v] = worker[v]
    BY <1>6, <1>10
  <2>2. ~Newer(worker[v], link)
    BY <2>1 DEF InOrder
  <2> QED BY <1>8, <2>1, <2>2, RankTypes, Ranks
<1>12. Newer(worker[w], acked)
  <2>1. ~Newer(acked, link)
    BY DEF InOrder
  <2> QED BY <1>8, <2>1, RankTypes, Ranks
<1>13. InOrder'
  <2>1. ASSUME NEW v \in Workers, Switched(v)' PROVE ~Newer(worker'[v], link') /\ Newer(worker'[v], worker'[v].prev)
    <3>1. CASE v = w
      BY <1>3, <1>4, <1>6, <1>8, <3>1, RankTypes DEF Newer
    <3>2. CASE v # w
      <4>1. Switched(v) /\ worker'[v] = worker[v] /\ Newer(worker[w], worker[v])
        BY <1>11, <2>1, <3>2
      <4>2. ~Newer(worker[v], worker[w])
        BY <4>1, RankTypes, Ranks
      <4> QED BY <1>4, <4>1, <4>2 DEF InOrder, Newer
    <3> QED BY <3>1, <3>2
  <2>2. ASSUME NEW v \in Workers, NEW u \in Workers, Switched(v)', Switched(u)', Newer(worker'[u], worker'[v])
        PROVE  ~Newer(worker'[v], worker'[u].prev)
    <3>1. CASE u = w /\ v # w
      BY <1>3, <1>6, <1>11, <2>2, <3>1 DEF InOrder
    <3>2. CASE u # w /\ v = w
      <4>1. Newer(worker[u], worker[w]) /\ Newer(worker[w], worker[u])
        BY <1>3, <1>6, <1>11, <2>2, <3>2 DEF Newer
      <4> QED BY <4>1, RankTypes, Ranks
    <3>3. CASE u = w /\ v = w
      BY <1>3, <1>6, <2>2, <3>3, RankTypes DEF Newer
    <3>4. CASE u # w /\ v # w
      BY <1>11, <2>2, <3>4 DEF InOrder
    <3> QED BY <3>1, <3>2, <3>3, <3>4
  <2>3. ~Newer(acked', link')
    <3>1. ~Newer(acked, worker[w])
      BY <1>12, RankTypes, Ranks
    <3> QED BY <1>4, <3>1 DEF Newer
  <2>4. ASSUME NEW u \in Workers, Switched(u)', Newer(worker'[u], acked') PROVE ~Newer(acked', worker'[u].prev)
    <3>1. CASE u = w
      BY <1>3, <1>6, <3>1 DEF InOrder
    <3>2. CASE u # w
      BY <1>11, <2>4, <3>2 DEF InOrder
    <3> QED BY <3>1, <3>2
  <2> QED BY <2>1, <2>2, <2>3, <2>4 DEF InOrder
<1>14. Twins'
  <2>1. ASSUME NEW v \in Workers, Switched(v)', Same(link', worker'[v]) PROVE link'.asof = worker'[v].asof
    <3>1. CASE v = w
      BY <1>3, <1>4, <1>6, <3>1
    <3>2. CASE v # w
      BY <1>4, <1>6, <1>10, <2>1, <3>2 DEF Same
    <3> QED BY <3>1, <3>2
  <2>2. ASSUME NEW v \in Workers, NEW u \in Workers, Switched(v)', Switched(u)', Same(worker'[u].prev, worker'[v])
        PROVE  worker'[u].prev.asof = worker'[v].asof
    <3>1. CASE u = w /\ v # w
      BY <1>3, <1>6, <1>11, <2>2, <3>1 DEF Twins
    <3>2. CASE u = w /\ v = w
      <4>1. Same(link, worker[w])
        BY <1>3, <1>6, <2>2, <3>2 DEF Same
      <4> QED BY <1>8, <4>1, RankTypes, Ranks
    <3>3. CASE u # w /\ v = w
      <4>1. Same(worker[u].prev, worker[w]) /\ Newer(worker[u], worker[u].prev) /\ Newer(worker[w], worker[u])
        BY <1>3, <1>6, <1>11, <2>2, <3>3 DEF Same, InOrder
      <4> QED BY <4>1, RankTypes DEF Same, Newer
    <3>4. CASE u # w /\ v # w
      <4>1. Switched(u) /\ Switched(v) /\ worker'[u] = worker[u] /\ worker'[v] = worker[v]
        BY <1>11, <2>2, <3>4
      <4> QED BY <2>2, <4>1 DEF Twins
    <3> QED BY <3>1, <3>2, <3>3, <3>4
  <2> QED BY <2>1, <2>2 DEF Twins
<1>15. Dated'
  <2> SUFFICES ASSUME NEW v \in Workers, worker'[v].at \in {"built", "active"}, Holder(v)'
               PROVE  worker'[v].asof >= job[generation].marker
    BY DEF Dated
  <2>1. worker[v].at \in {"built", "active"} /\ Holder(v) /\ worker'[v].asof = worker[v].asof
    BY <1>3, <1>6 DEF Holder
  <2> QED BY <2>1 DEF Dated
<1>16. Reported'
  <2> SUFFICES ASSUME generation # 0, job[generation].state = "succeeded"
               PROVE  /\ \A v \in Workers : Engaged(v)' /\ worker'[v].gen = generation /\ worker'[v].fence = job[generation].fence
                                               => worker'[v].at = "unsure"
                      /\ <<generation, job[generation].fence>> \in undone
    BY DEF Reported
  <2>1. ~(worker[w].gen = generation /\ worker[w].fence = job[generation].fence)
    BY <1>8 DEF Reported
  <2>2. \A v \in Workers : Engaged(v)' /\ worker'[v].gen = generation /\ worker'[v].fence = job[generation].fence
                              => worker'[v].at = "unsure"
    <3> SUFFICES ASSUME NEW v \in Workers, Engaged(v)', worker'[v].gen = generation, worker'[v].fence = job[generation].fence
                 PROVE  worker'[v].at = "unsure"
      OBVIOUS
    <3>1. v # w
      BY <1>3, <1>6, <2>1
    <3>2. worker'[v] = worker[v] /\ Engaged(v)
      BY <1>6, <3>1 DEF Engaged
    <3> QED BY <3>2 DEF Reported
  <2>3. ASSUME <<generation, job[generation].fence>> \notin undone PROVE FALSE
    <3>1. link.gen = generation /\ link.fence = job[generation].fence
      BY <2>3 DEF Reported
    <3>2. worker[w].gen \in Nat /\ generation \in Nat /\ worker[w].gen <= generation
          /\ (worker[w].gen = generation => worker[w].fence <= job[generation].fence)
      <4>1. worker[w].gen \in 1 .. generation /\ worker[w].fence <= job[worker[w].gen].fence
        BY <1>8, HolderIssued
      <4>2. generation \in Nat
        BY DEF RenderTypes, RenderAssumption
      <4> QED BY <4>1, <4>2
    <3>3. worker[w].fence \in Nat /\ link.fence \in Nat
      BY RankTypes
    <3> QED BY <1>8, <3>1, <3>2, <3>3 DEF Newer
  <2> QED BY <2>2, <2>3
<1> QED BY <1>5, <1>9, <1>13, <1>14, <1>15, <1>16

LEMMA ActivatesStep == ASSUME RenderAssumption, RenderInv, NEW w \in Workers, ActivatesArtifact(w) PROVE RenderInv'
<1> USE DEF RenderInv
<1>1. worker[w].at = "built" /\ UNCHANGED <<now, generation, due, job, alert, acked, undone>>
  BY DEF ActivatesArtifact
<1>2. CASE MayReplace(w) /\ link' = Artifact(w)
           /\ worker' = [worker EXCEPT ![w].at = "active", ![w].prev = link, ![w].since = now]
  BY <1>1, <1>2, SwitchStep
<1>3. CASE worker' = [worker EXCEPT ![w].at = "failing", ![w].since = now] /\ UNCHANGED link
  <2> DEFINE row == [worker[w] EXCEPT !.at = "failing", !.since = now]
  <2>1. worker' = [worker EXCEPT ![w] = row]
    BY <1>3
  <2>2. worker[w] \in Work /\ now \in Nat
    BY DEF RenderTypes
  <2>3. /\ row \in Work /\ row.gen = worker[w].gen /\ row.fence = worker[w].fence /\ row.prev = worker[w].prev
        /\ row.at = "failing"
    BY <2>2 DEF Work
  <2> HIDE DEF row
  <2>4. worker'[w] = row /\ \A v \in Workers : v # w => worker'[v] = worker[v]
    BY <2>1, Alone
  <2>5. RenderTypes'
    <3>1. link' \in Artifacts
      BY <1>3 DEF RenderTypes
    <3> QED BY <1>1, <2>1, <2>3, <3>1, RowTyped
  <2>6. Privately(w)
    BY <1>1, <1>3, <2>3, <2>4 DEF Privately, Engaged, Same
  <2> QED BY <2>5, <2>6, PrivateStep
<1> QED BY <1>2, <1>3 DEF ActivatesArtifact

\* A worker that is not told puts back what it replaced, if that is still the link.
LEMMA RollsBackStep == ASSUME RenderAssumption, RenderInv, NEW w \in Workers, RollsBack(w) PROVE RenderInv'
<1> USE DEF RenderInv
<1>1. /\ worker[w].at \in {"unsure", "refused"} /\ worker' = [worker EXCEPT ![w] = Unengaged]
      /\ UNCHANGED <<now, generation, due, job, alert, acked>> /\ undone \subseteq undone'
      /\ worker[w].at = "unsure" => <<worker[w].gen, worker[w].fence>> \in undone'
      /\ (IsCandidate(w) /\ link' = worker[w].prev) \/ (~IsCandidate(w) /\ link' = link)
  BY DEF RollsBack
<1>2. worker'[w] = Unengaged /\ ~Switched(w)' /\ ~Engaged(w)' /\ \A v \in Workers : v # w => worker'[v] = worker[v]
  BY <1>1, Alone, UnengagedType DEF Switched, Engaged
<1>3. Switched(w) /\ Engaged(w)
  BY <1>1 DEF Switched, Engaged
<1>4. RenderTypes'
  <2>1. worker[w].prev \in Artifacts /\ link \in Artifacts
    BY DEF RenderTypes, Work
  <2>2. link' \in Artifacts
    BY <1>1, <2>1
  <2> QED BY <1>1, <2>2, UnengagedType, RowTyped
<1>5. FencesGrow
  BY <1>1, JobsStand
<1>6. Carries
  BY <1>1, <1>2 DEF Carries, Same, Engaged
<1>7. Numbered'
  BY <1>1, <1>4, <1>5, <1>6, NumbersKept DEF Numbered
<1>8. \A v \in Workers : Switched(v)' => v # w /\ Switched(v) /\ worker'[v] = worker[v]
  BY <1>2 DEF Switched
<1>9. Dated'
  BY <1>1, <1>2, UnengagedType DEF Dated, Holder
<1>10. CASE ~IsCandidate(w) /\ link' = link
  <2>1. Quiet
    BY <1>1, <1>8, <1>10 DEF Quiet, Same
  <2>2. Reported'
    <3>1. \A m : Watermark(m)' = Watermark(m)
      BY <1>1 DEF Watermark
    <3>2. /\ job' = job /\ generation' = generation /\ alert' = alert /\ link' = link /\ undone \subseteq undone'
          /\ \A v \in Workers : Engaged(v)' => Engaged(v) /\ worker'[v] = worker[v]
      BY <1>1, <1>2, <1>10 DEF Engaged
    <3> QED BY <3>1, <3>2, SMTT(30) DEF Reported
  <2> QED BY <1>4, <1>7, <1>9, <2>1, <2>2, QuietOrder
<1>11. CASE IsCandidate(w) /\ link' = worker[w].prev
  <2>1. Same(link, worker[w])
    BY <1>11 DEF IsCandidate, Same
  <2>2. ASSUME NEW v \in Workers, Switched(v)'
        PROVE  ~Newer(worker[v], worker[w].prev)
    <3>1. v # w /\ Switched(v) /\ ~Same(worker[v], worker[w]) /\ ~Newer(worker[v], link)
      BY <1>3, <1>8, <2>2, SwitchedAlone DEF InOrder
    <3>2. Newer(worker[w], worker[v])
      BY <2>1, <3>1, RankTypes, Ranks
    <3> QED BY <1>3, <3>1, <3>2 DEF InOrder
  <2>3. ~Newer(acked, worker[w].prev)
    <3>1. ~Newer(acked, link) /\ ~Same(worker[w], acked)
      BY <1>3 DEF InOrder, Numbered
    <3>2. Newer(worker[w], acked)
      BY <2>1, <3>1, RankTypes, Ranks
    <3> QED BY <1>3, <3>2 DEF InOrder
  <2>4. InOrder'
    BY <1>1, <1>8, <1>11, <2>2, <2>3 DEF InOrder
  <2>5. Twins'
    BY <1>1, <1>3, <1>8, <1>11 DEF Twins
  <2>6. Reported'
    <3> SUFFICES ASSUME generation # 0, job[generation].state = "succeeded",
                        <<generation, job[generation].fence>> \notin undone'
                 PROVE  FALSE
      BY <1>1, <1>2 DEF Reported, Engaged
    <3>1. link.gen = generation /\ link.fence = job[generation].fence
      BY <1>1 DEF Reported
    <3>2. worker[w].gen = generation /\ worker[w].fence = job[generation].fence
      BY <2>1, <3>1 DEF Same
    <3>3. worker[w].at = "unsure"
      BY <1>3, <3>2 DEF Reported
    <3> QED BY <1>1, <3>2, <3>3
  <2> QED BY <1>4, <1>7, <1>9, <2>4, <2>5, <2>6
<1> QED BY <1>1, <1>10, <1>11

----------------------------------------------------------------------------
(* Transactions on the current job *)

\* What a step makes of the job of the current generation, the only one it writes.
Writes(j) == job' = [job EXCEPT ![generation] = j]

LEMMA WritesGrow ==
    ASSUME RenderAssumption, RenderTypes, Numbered, UNCHANGED <<now, generation>>, NEW j \in Job, Writes(j),
           generation # 0, j.fence >= job[generation].fence, j.marker <= now
    PROVE  /\ FencesGrow /\ job' \in [1 .. MaxGeneration -> Job] /\ job'[generation] = j
           /\ \A g \in 1 .. MaxGeneration : job'[g].marker <= now'
           /\ job[generation] \in Job /\ generation \in 1 .. MaxGeneration
<1>1. generation \in 1 .. MaxGeneration /\ generation \in Nat /\ MaxGeneration \in Nat
  BY DEF RenderTypes, RenderAssumption
<1>2. job \in [1 .. MaxGeneration -> Job] /\ job[generation] \in Job
  BY <1>1 DEF RenderTypes
<1>3. job' \in [1 .. MaxGeneration -> Job] /\ job'[generation] = j
      /\ \A g \in 1 .. MaxGeneration : g # generation => job'[g] = job[g]
  BY <1>1, <1>2 DEF Writes
<1>4. \A g \in 1 .. MaxGeneration : job[g].fence \in Nat /\ job'[g].fence \in Nat
  BY <1>2, <1>3 DEF Job
<1>5. \A g \in 1 .. MaxGeneration : job[g].fence <= job'[g].fence
  BY <1>3, <1>4
<1>6. FencesGrow
  BY <1>1, <1>4, <1>5 DEF FencesGrow, RenderTypes
<1>7. \A g \in 1 .. MaxGeneration : job'[g].marker <= now'
  BY <1>3 DEF Numbered
<1> QED BY <1>1, <1>2, <1>3, <1>6, <1>7

LEMMA RenewsLeaseStep == ASSUME RenderAssumption, RenderInv, NEW w \in Workers, RenewsLease(w) PROVE RenderInv'
<1> USE DEF RenderInv
<1>1. PICK t \in Readings(w) :
         /\ worker[w].at \in {"leased", "built", "active"} /\ HoldsLease(w, t)
         /\ job' = [job EXCEPT ![generation].expires = t + LeaseTime, ![generation].updated = t]
         /\ worker' = [worker EXCEPT ![w].since = t]
         /\ UNCHANGED <<now, generation, due, alert, link, acked, undone>>
  BY DEF RenewsLease
<1>2. t \in Nat /\ t <= now /\ LeaseTime \in Nat
  BY ReadingsType DEF RenderAssumption
<1>3. Engaged(w) /\ worker[w].gen = generation /\ worker[w].gen # 0 /\ job[generation].state = "leased"
  BY <1>1 DEF Engaged, HoldsLease, Numbered
<1> DEFINE j == [job[generation] EXCEPT !.expires = t + LeaseTime, !.updated = t]
           row == [worker[w] EXCEPT !.since = t]
<1>4. Writes(j) /\ worker' = [worker EXCEPT ![w] = row]
  BY <1>1 DEF Writes
<1>5. job[generation] \in Job /\ worker[w] \in Work /\ generation \in 1 .. MaxGeneration
  BY <1>3 DEF RenderTypes
<1>6. /\ j \in Job /\ j.state = job[generation].state /\ j.fence = job[generation].fence
      /\ j.marker = job[generation].marker /\ j.fence >= job[generation].fence /\ j.marker <= now
  <2>1. j.state = job[generation].state /\ j.fence = job[generation].fence /\ j.marker = job[generation].marker
    BY <1>5 DEF Job
  <2>2. t + LeaseTime \in Int
    BY <1>2
  <2>3. j \in Job
    BY <1>2, <1>5, <2>2 DEF Job
  <2>4. job[generation].marker <= now /\ job[generation].fence \in Nat
    BY <1>5 DEF Numbered, Job
  <2> QED BY <2>1, <2>3, <2>4
<1>7. /\ row \in Work /\ row.gen = worker[w].gen /\ row.fence = worker[w].fence /\ row.asof = worker[w].asof
      /\ row.prev = worker[w].prev /\ row.at = worker[w].at
  BY <1>2, <1>5 DEF Work
<1> HIDE DEF j, row
<1>8. /\ FencesGrow /\ job' \in [1 .. MaxGeneration -> Job] /\ job'[generation] = j
      /\ \A g \in 1 .. MaxGeneration : job'[g].marker <= now'
  BY <1>1, <1>3, <1>4, <1>6, WritesGrow
<1>9. worker'[w] = row /\ \A v \in Workers : v # w => worker'[v] = worker[v]
  BY <1>4, Alone
<1>10. RenderTypes'
  <2>1. worker' \in [Workers -> Work]
    BY <1>4, <1>7 DEF RenderTypes
  <2>2. UNCHANGED <<now, generation, due, alert, link, acked>>
    BY <1>1
  <2> QED BY <1>8, <2>1, <2>2 DEF RenderTypes
<1>11. \A v \in Workers : /\ worker'[v].at = worker[v].at /\ worker'[v].gen = worker[v].gen
                          /\ worker'[v].fence = worker[v].fence /\ worker'[v].prev = worker[v].prev
                          /\ worker'[v].asof = worker[v].asof
  BY <1>7, <1>9
<1>12. Carries
  BY <1>1, <1>11 DEF Carries, Same, Engaged
<1>13. Numbered'
  BY <1>8, <1>10, <1>12, NumbersKept
<1>14. Quiet
  BY <1>1, <1>11 DEF Quiet, Same, Switched
<1>15. Dated'
  BY <1>1, <1>6, <1>8, <1>11 DEF Dated, Holder
<1>16. Reported'
  BY <1>1, <1>3, <1>6, <1>8 DEF Reported
<1> QED BY <1>10, <1>13, <1>14, <1>15, <1>16, QuietOrder

\* What each transaction writes is a job, and keeps the fence or starts the next cycle.
LEMMA ObsoleteType ==
    ASSUME NEW j \in Job, NEW t \in Nat
    PROVE  Obsolete(j, t) \in Job /\ Obsolete(j, t).fence = j.fence /\ Obsolete(j, t).marker = 0
<1> DEFINE a == [j EXCEPT !.state = "failed"]
           b == [a EXCEPT !.expires = 0]
           c == [b EXCEPT !.marker = 0]
<1>1. Obsolete(j, t) = [c EXCEPT !.updated = t]
  BY DEF Obsolete
<1>2. a \in Job /\ a.fence = j.fence
  BY DEF Job
<1> HIDE DEF a
<1>3. b \in Job /\ b.fence = j.fence
  BY <1>2 DEF Job
<1> HIDE DEF b
<1>4. c \in Job /\ c.fence = j.fence /\ c.marker = 0
  BY <1>3 DEF Job
<1> HIDE DEF c
<1> QED BY <1>1, <1>4 DEF Job

LEMMA GivenUpType ==
    ASSUME NEW j \in Job, NEW t \in Nat
    PROVE  /\ GivenUp(j, t) \in Job /\ GivenUp(j, t).state = "failed"
           /\ GivenUp(j, t).fence = j.fence /\ GivenUp(j, t).marker = j.marker
<1> DEFINE a == [j EXCEPT !.state = "failed"]
           b == [a EXCEPT !.expires = 0]
<1>1. GivenUp(j, t) = [b EXCEPT !.updated = t]
  BY DEF GivenUp
<1>2. a \in Job /\ a.state = "failed" /\ a.fence = j.fence /\ a.marker = j.marker
  BY DEF Job
<1> HIDE DEF a
<1>3. b \in Job /\ b.state = "failed" /\ b.fence = j.fence /\ b.marker = j.marker
  BY <1>2 DEF Job
<1> HIDE DEF b
<1> QED BY <1>1, <1>3 DEF Job

LEMMA FailedType ==
    ASSUME RenderAssumption, NEW j \in Job, NEW t \in Nat
    PROVE  /\ Failed(j, t) \in Job /\ Failed(j, t).fence = j.fence
           /\ Failed(j, t).marker = 0 \/ Failed(j, t).marker = j.marker
           /\ Failed(j, t).state \in {"failed", "queued"}
<1>1. j.fence \in Int
  BY DEF Job
<1>2. Ordinal(j.fence) \in Int /\ RetryDelay \in Int
  BY <1>1, OrdinalType DEF RenderAssumption
<1>3. t + RetryDelay * Ordinal(j.fence) \in Int
  BY <1>2
<1>4. CASE Exhausted(j.fence)
  <2>1. Failed(j, t) = GivenUp(j, t)
    BY <1>4 DEF Failed
  <2>2. /\ GivenUp(j, t) \in Job /\ GivenUp(j, t).state = "failed"
        /\ GivenUp(j, t).fence = j.fence /\ GivenUp(j, t).marker = j.marker
    BY GivenUpType
  <2> QED BY <2>1, <2>2
<1>5. CASE ~Exhausted(j.fence)
  <2> DEFINE e == t + RetryDelay * Ordinal(j.fence)
             a == [j EXCEPT !.state = "queued"]
             b == [a EXCEPT !.expires = e]
             c == [b EXCEPT !.marker = 0]
  <2>1. Failed(j, t) = [c EXCEPT !.updated = t]
    BY <1>5 DEF Failed
  <2>2. e \in Int
    BY <1>3
  <2> HIDE DEF e
  <2>3. a \in Job /\ a.state = "queued" /\ a.fence = j.fence
    BY DEF Job
  <2> HIDE DEF a
  <2>4. b \in Job /\ b.state = "queued" /\ b.fence = j.fence
    BY <2>2, <2>3 DEF Job
  <2> HIDE DEF b
  <2>5. c \in Job /\ c.state = "queued" /\ c.fence = j.fence /\ c.marker = 0
    BY <2>4 DEF Job
  <2> HIDE DEF c
  <2> QED BY <2>1, <2>5 DEF Job
<1> QED BY <1>4, <1>5

LEMMA FailsStep == ASSUME RenderAssumption, RenderInv, NEW w \in Workers, Fails(w) PROVE RenderInv'
<1> USE DEF RenderInv
<1>1. PICK t \in Readings(w) :
         /\ worker[w].at = "failing" /\ worker' = [worker EXCEPT ![w] = Unengaged]
         /\ IF HoldsLease(w, t)
            THEN job' = [job EXCEPT ![generation] = Failed(@, t)] /\ alert' = [alert EXCEPT ![generation] = "active"]
            ELSE UNCHANGED <<job, alert>>
         /\ UNCHANGED <<now, generation, due, link, acked, undone>>
  BY DEF Fails
<1>2. worker'[w] = Unengaged /\ \A v \in Workers : v # w => worker'[v] = worker[v]
  BY <1>1, Alone
<1>3. CASE ~HoldsLease(w, t)
  <2>1. Privately(w)
    BY <1>1, <1>2, <1>3 DEF Privately
  <2>2. RenderTypes'
    BY <1>1, <1>3, UnengagedType DEF RenderTypes
  <2> QED BY <2>1, <2>2, PrivateStep
<1>4. CASE HoldsLease(w, t)
  <2>1. Engaged(w) /\ worker[w].gen = generation /\ worker[w].gen # 0 /\ job[generation].fence = worker[w].fence
    BY <1>1, <1>4 DEF Engaged, HoldsLease, Numbered
  <2>2. job[generation] \in Job /\ t \in Nat /\ generation \in 1 .. MaxGeneration /\ now \in Nat
    BY <2>1, ReadingsType DEF RenderTypes
  <2> DEFINE j == Failed(job[generation], t)
  <2>4. Writes(j)
    BY <1>1, <1>4 DEF Writes
  <2>5. j \in Job /\ j.fence = job[generation].fence /\ j.state \in {"failed", "queued"} /\ (j.marker = 0 \/ j.marker = job[generation].marker)
    BY <2>2, FailedType
  <2> HIDE DEF j
  <2>6. j.fence >= job[generation].fence /\ j.marker <= now
    BY <2>2, <2>5 DEF Numbered, Job
  <2>7. /\ FencesGrow /\ job' \in [1 .. MaxGeneration -> Job] /\ job'[generation] = j
        /\ \A g \in 1 .. MaxGeneration : job'[g].marker <= now'
    BY <1>1, <2>1, <2>4, <2>5, <2>6, WritesGrow
  <2>8. alert' \in [1 .. MaxGeneration -> {"none", "active", "resolved"}] /\ alert'[generation] = "active"
    BY <1>1, <1>4, <2>2 DEF RenderTypes
  <2>9. RenderTypes'
    BY <1>1, <2>7, <2>8, UnengagedType DEF RenderTypes
  <2>10. Carries
    BY <1>1, <1>2 DEF Carries, Same, Engaged
  <2>11. Numbered'
    BY <2>7, <2>9, <2>10, NumbersKept
  <2>12. Quiet
    BY <1>1, <1>2, UnengagedType DEF Quiet, Same, Switched
  <2>13. Dated'
    BY <1>1, <2>5, <2>7 DEF Dated, Holder
  <2>14. Reported'
    BY <1>1, <2>5, <2>7, <2>8 DEF Reported
  <2> QED BY <2>9, <2>11, <2>12, <2>13, <2>14, QuietOrder
<1> QED BY <1>3, <1>4

----------------------------------------------------------------------------
(* Completion *)

\* Whether an announcement crossed the render or not, the job is over for its holder.
LEMMA CompletedType ==
    ASSUME RenderAssumption, NEW j \in Job, NEW t \in Nat
    PROVE  /\ Completed(j, t) \in Job /\ Completed(j, t).fence >= j.fence
           /\ Completed(j, t).marker = 0 \/ Completed(j, t).marker = t
           /\ \/ Completed(j, t).state = "queued"
              \/ /\ Completed(j, t).state = "succeeded" /\ Completed(j, t).fence = j.fence
                 /\ Completed(j, t).marker = t /\ ~Crossed(j, t)
<1>1. NextCycle(j.fence) \in Nat /\ NextCycle(j.fence) >= j.fence
  BY NextCycleGrows DEF Job
<1>2. CASE Crossed(j, t)
  <2> DEFINE f == NextCycle(j.fence)
  <2>1. Completed(j, t) = [state |-> "queued", fence |-> f, expires |-> 0, marker |-> 0, updated |-> t]
    BY <1>2 DEF Completed
  <2>2. f \in Nat /\ f >= j.fence
    BY <1>1
  <2> HIDE DEF f
  <2> QED BY <2>1, <2>2 DEF Job
<1>3. CASE ~Crossed(j, t)
  <2> DEFINE a == [j EXCEPT !.state = "succeeded"]
             b == [a EXCEPT !.expires = 0]
             c == [b EXCEPT !.marker = t]
  <2>1. Completed(j, t) = [c EXCEPT !.updated = t]
    BY <1>3 DEF Completed
  <2>2. a \in Job /\ a.state = "succeeded" /\ a.fence = j.fence
    BY DEF Job
  <2> HIDE DEF a
  <2>3. b \in Job /\ b.state = "succeeded" /\ b.fence = j.fence
    BY <2>2 DEF Job
  <2> HIDE DEF b
  <2>4. c \in Job /\ c.state = "succeeded" /\ c.fence = j.fence /\ c.marker = t
    BY <2>3 DEF Job
  <2> HIDE DEF c
  <2>5. Completed(j, t) \in Job /\ Completed(j, t).state = "succeeded" /\ Completed(j, t).fence = j.fence
        /\ Completed(j, t).marker = t
    BY <2>1, <2>4 DEF Job
  <2>6. j.fence \in Nat
    BY DEF Job
  <2> QED BY <1>3, <2>5, <2>6
<1> QED BY <1>2, <1>3

LEMMA CompletesJobStep == ASSUME RenderAssumption, RenderInv, NEW w \in Workers, CompletesJob(w) PROVE RenderInv'
<1> USE DEF RenderInv
<1>1. PICK t \in Readings(w) :
         /\ worker[w].at = "active" /\ HoldsLease(w, t)
         /\ job' = [job EXCEPT ![generation] = Completed(@, t)]
         /\ alert' = [alert EXCEPT ![generation] = IF @ = "none" THEN "none" ELSE "resolved"]
         /\ \/ worker' = [worker EXCEPT ![w] = Unengaged] /\ acked' = [gen |-> worker[w].gen, fence |-> worker[w].fence]
            \/ worker' = [worker EXCEPT ![w].at = "unsure"] /\ UNCHANGED acked
         /\ UNCHANGED <<now, generation, due, link, undone>>
  BY DEF CompletesJob
<1>2. /\ Engaged(w) /\ Switched(w) /\ worker[w].gen = generation /\ generation # 0
      /\ job[generation].state = "leased" /\ job[generation].fence = worker[w].fence
  BY <1>1 DEF Engaged, Switched, HoldsLease, Numbered
<1>3. job[generation] \in Job /\ t \in Nat /\ t <= now /\ generation \in 1 .. MaxGeneration /\ now \in Nat
  <2>1. t \in Nat /\ t <= now
    BY ReadingsType
  <2>2. now \in Nat /\ generation \in 0 .. MaxGeneration /\ job \in [1 .. MaxGeneration -> Job]
    BY DEF RenderTypes
  <2>3. generation \in 1 .. MaxGeneration
    BY <1>2, <2>2 DEF RenderAssumption
  <2> QED BY <2>1, <2>2, <2>3
<1> DEFINE j == Completed(job[generation], t)
<1>4. Writes(j)
  BY <1>1 DEF Writes
<1>5. /\ j \in Job /\ j.fence >= job[generation].fence /\ (j.marker = 0 \/ j.marker = t)
      /\ \/ j.state = "queued"
         \/ /\ j.state = "succeeded" /\ j.fence = job[generation].fence
            /\ j.marker = t /\ ~Crossed(job[generation], t)
  BY <1>3, CompletedType
<1> HIDE DEF j
<1>6. j.marker <= now
  BY <1>3, <1>5
<1>7. /\ FencesGrow /\ job' \in [1 .. MaxGeneration -> Job] /\ job'[generation] = j
      /\ \A g \in 1 .. MaxGeneration : job'[g].marker <= now'
  BY <1>1, <1>2, <1>4, <1>5, <1>6, WritesGrow
<1>8. alert' \in [1 .. MaxGeneration -> {"none", "active", "resolved"}] /\ alert'[generation] # "active"
  BY <1>1, <1>3 DEF RenderTypes
<1>9. worker[w] \in Work
  BY DEF RenderTypes
<1>10. /\ worker'[w] \in Work /\ worker' = [worker EXCEPT ![w] = worker'[w]]
       /\ \/ worker'[w] = Unengaged /\ acked' = [gen |-> worker[w].gen, fence |-> worker[w].fence]
          \/ /\ worker'[w].at = "unsure" /\ worker'[w].gen = worker[w].gen /\ worker'[w].fence = worker[w].fence
             /\ worker'[w].prev = worker[w].prev /\ worker'[w].asof = worker[w].asof /\ acked' = acked
  <2>1. CASE worker' = [worker EXCEPT ![w] = Unengaged] /\ acked' = [gen |-> worker[w].gen, fence |-> worker[w].fence]
    <3>1. worker'[w] = Unengaged
      BY <2>1, Alone
    <3> QED BY <2>1, <3>1, UnengagedType
  <2>2. CASE worker' = [worker EXCEPT ![w].at = "unsure"] /\ UNCHANGED acked
    <3> DEFINE row == [worker[w] EXCEPT !.at = "unsure"]
    <3>1. worker' = [worker EXCEPT ![w] = row]
      BY <2>2
    <3>2. /\ row \in Work /\ row.at = "unsure" /\ row.gen = worker[w].gen /\ row.fence = worker[w].fence
          /\ row.prev = worker[w].prev /\ row.asof = worker[w].asof
      BY <1>9 DEF Work
    <3> HIDE DEF row
    <3>3. worker'[w] = row
      BY <3>1, Alone
    <3> QED BY <2>2, <3>1, <3>2, <3>3
  <2> QED BY <1>1, <2>1, <2>2
<1>11. \A v \in Workers : v # w => worker'[v] = worker[v]
  BY <1>10, Alone
<1>12. RenderTypes'
  <2>1. acked' \in [gen : Nat, fence : Nat]
    <3>1. worker[w].gen \in Nat /\ worker[w].fence \in Nat
      BY <1>9 DEF Work
    <3>2. [gen |-> worker[w].gen, fence |-> worker[w].fence] \in [gen : Nat, fence : Nat]
      BY <3>1
    <3>3. acked \in [gen : Nat, fence : Nat]
      BY DEF RenderTypes
    <3> QED BY <1>10, <3>2, <3>3
  <2>2. worker' \in [Workers -> Work]
    BY <1>10 DEF RenderTypes
  <2> QED BY <1>1, <1>7, <1>8, <2>1, <2>2 DEF RenderTypes
<1>13. Carries
  <2>1. \A v \in Workers :
           \/ worker'[v] = Unengaged
           \/ (worker'[v].at # "idle" => Engaged(v)) /\ Same(worker'[v], worker[v]) /\ worker'[v].prev = worker[v].prev
    BY <1>2, <1>10, <1>11 DEF Same, Engaged
  <2>2. acked' = acked \/ (Same(acked', worker[w]) /\ worker'[w] = Unengaged)
    BY <1>10 DEF Same
  <2> QED BY <1>1, <1>2, <2>1, <2>2 DEF Carries
<1>14. Numbered'
  BY <1>7, <1>12, <1>13, NumbersKept
\* The holder has the newest fence there is, so the link is its artifact.
<1>15. \A a : a.gen \in Nat /\ a.fence \in Nat /\ Issued(a) => ~Newer(a, worker[w])
  <2> SUFFICES ASSUME NEW a, a.gen \in Nat, a.fence \in Nat, Issued(a), Newer(a, worker[w]) PROVE FALSE
    OBVIOUS
  <2>1. a.gen <= generation /\ generation \in Nat /\ worker[w].fence \in Nat
    BY <1>3, <1>9 DEF Issued, Work
  <2>2. a.gen = generation /\ a.fence > worker[w].fence
    BY <1>2, <2>1 DEF Newer
  <2> QED BY <1>2, <2>1, <2>2 DEF Issued
<1>16. Same(link, worker[w])
  <2>1. ~Newer(worker[w], link) /\ ~Newer(link, worker[w])
    BY <1>2, <1>15, RankTypes DEF InOrder, Numbered
  <2> QED BY <2>1, RankTypes, Ranks
<1>17. InOrder' /\ Twins'
  <2>1. CASE acked' = acked
    <3>1. Quiet
      BY <1>1, <1>2, <1>10, <1>11, <2>1, UnengagedType DEF Quiet, Same, Switched
    <3> QED BY <3>1, QuietOrder
  <2>2. CASE worker'[w] = Unengaged /\ acked' = [gen |-> worker[w].gen, fence |-> worker[w].fence]
    <3>1. \A v \in Workers : Switched(v)' => Switched(v) /\ worker'[v] = worker[v]
      BY <1>11, <2>2, UnengagedType DEF Switched
    <3>2. ~Newer(acked', link')
      BY <1>1, <1>16, <2>2, RankTypes DEF Same, Newer
    <3>3. \A u \in Workers : ~Newer(worker[u], acked')
      BY <1>15, <2>2, RankTypes DEF Numbered, Newer
    <3>4. InOrder'
      BY <1>1, <3>1, <3>2, <3>3 DEF InOrder
    <3>5. Twins'
      BY <1>1, <3>1 DEF Twins
    <3> QED BY <3>4, <3>5
  <2> QED BY <1>10, <2>1, <2>2
<1>18. Dated'
  BY <1>1, <1>5, <1>7 DEF Dated, Holder
<1>19. Reported'
  <2>1. CASE j.state = "queued"
    BY <1>1, <1>7, <2>1 DEF Reported
  <2>2. CASE /\ j.state = "succeeded" /\ j.fence = job[generation].fence
             /\ j.marker = t /\ ~Crossed(job[generation], t)
    <3>1. \A v \in Workers : Engaged(v)' /\ worker'[v].gen = generation /\ worker'[v].fence = j.fence
                                 => worker'[v].at = "unsure"
      <4> SUFFICES ASSUME NEW v \in Workers, Engaged(v)', worker'[v].gen = generation, worker'[v].fence = j.fence
                   PROVE  worker'[v].at = "unsure"
        OBVIOUS
      <4>1. CASE v = w
        BY <1>10, <4>1, UnengagedType DEF Engaged
      <4>2. CASE v # w
        <5>1. Engaged(v) /\ Same(worker[v], worker[w])
          BY <1>2, <1>11, <2>2, <4>2 DEF Engaged, Same
        <5> QED BY <1>2, <4>2, <5>1 DEF Numbered
      <4> QED BY <4>1, <4>2
    <3>2. link.gen = generation /\ link.fence = j.fence
      BY <1>2, <1>16, <2>2 DEF Same
    <3>3. link.asof = worker[w].asof /\ worker[w].asof >= job[generation].marker
      BY <1>1, <1>2, <1>16 DEF Twins, Dated, Holder
    <3>4. Watermark(t) \in Nat /\ Watermark(t)' = Watermark(t)
      BY <1>1, WatermarkType DEF Watermark
    <3>5. job[generation].marker >= Watermark(t)
      BY <1>3, <2>2, <3>4 DEF Crossed, Job
    <3>6. link.asof >= Watermark(t)
      BY <1>3, <1>9, <3>3, <3>4, <3>5 DEF Job, Work
    <3>7. generation' = generation /\ link' = link /\ job'[generation] = j /\ due' = due
      BY <1>1, <1>7
    <3>8. \A m \in Nat : m = job'[generation'].marker => link'.asof >= Watermark(m)'
      <4> SUFFICES ASSUME NEW m \in Nat, m = job'[generation'].marker PROVE link'.asof >= Watermark(m)'
        OBVIOUS
      <4>1. m = t /\ Watermark(m)' = Watermark(m)
        BY <2>2, <3>7 DEF Watermark
      <4> QED BY <3>6, <3>7, <4>1
    <3> QED BY <1>8, <2>2, <3>1, <3>2, <3>6, <3>8, <3>7 DEF Reported
  <2> QED BY <1>5, <2>1, <2>2
<1> QED BY <1>12, <1>14, <1>17, <1>18, <1>19

----------------------------------------------------------------------------
(* Leases and publications *)

LEMMA JobTypes ==
    ASSUME RenderTypes
    PROVE  \A g \in 1 .. MaxGeneration : job[g] \in Job /\ job[g].fence \in Nat /\ job[g].marker \in Nat
<1>1. \A g \in 1 .. MaxGeneration : job[g] \in Job
  BY DEF RenderTypes
<1>2. \A j \in Job : j.fence \in Nat /\ j.marker \in Nat
  BY DEF Job
<1> QED BY <1>1, <1>2

\* The current job after the announcements were looked at: as it was, or queued for another cycle.
LEMMA RequeuedType ==
    ASSUME RenderAssumption, RenderTypes, NEW t \in Nat
    PROVE  /\ Requeued(t) \in [1 .. MaxGeneration -> Job]
           /\ \A g \in 1 .. MaxGeneration :
                 /\ Requeued(t)[g].fence >= job[g].fence
                 /\ Requeued(t)[g].marker = 0 \/ Requeued(t)[g].marker = job[g].marker
                 /\ Requeued(t)[g] = job[g] \/ (g = generation /\ Requeued(t)[g].state = "queued")
<1>1. \A g \in 1 .. MaxGeneration : job[g] \in Job /\ job[g].fence \in Nat /\ job[g].fence >= job[g].fence
  BY JobTypes
<1>2. job \in [1 .. MaxGeneration -> Job]
  BY DEF RenderTypes
<1>3. CASE generation = 0 \/ ~ShouldQueue(job[generation], t)
  <2>1. Requeued(t) = job
    BY <1>2, <1>3 DEF Requeued
  <2> QED BY <1>1, <1>2, <2>1
<1>4. CASE generation # 0 /\ ShouldQueue(job[generation], t)
  <2> DEFINE j == [state |-> "queued", fence |-> NextCycle(job[generation].fence), expires |-> 0, marker |-> 0, updated |-> t]
  <2>1. generation \in 1 .. MaxGeneration
    BY <1>4 DEF RenderTypes
  <2>2. NextCycle(job[generation].fence) \in Nat /\ NextCycle(job[generation].fence) >= job[generation].fence
    BY <1>1, <2>1, NextCycleGrows
  <2>3. Requeued(t) = [job EXCEPT ![generation] = j]
    BY <1>4, <1>2, <2>1 DEF Requeued
  <2>4. j \in Job /\ j.fence >= job[generation].fence /\ j.marker = 0 /\ j.state = "queued"
    BY <2>2 DEF Job
  <2> HIDE DEF j
  <2> QED BY <1>1, <1>2, <2>1, <2>3, <2>4
<1> QED BY <1>3, <1>4

\* What a lease writes: superseded jobs keep their fences; the current one is as it was, queued, given up or leased anew.
Swept(w, t) ==
    /\ job' \in [1 .. MaxGeneration -> Job]
    /\ \A g \in 1 .. MaxGeneration : job'[g].fence >= job[g].fence /\ job'[g].marker <= now
    /\ UNCHANGED <<now, generation, due, link, acked, undone>>
    /\ worker[w].at = "idle"
    /\ \/ /\ worker' = worker
          /\ alert' \in [1 .. MaxGeneration -> {"none", "active", "resolved"}]
          /\ \/ generation = 0
             \/ job'[generation] = job[generation] /\ alert' = alert
             \/ job'[generation].state = "queued"
             \/ job'[generation].state = "failed" /\ alert'[generation] = "active"
       \/ /\ alert' = alert /\ generation # 0
          /\ job'[generation].state = "leased" /\ job'[generation].fence > job[generation].fence
          /\ worker' = [worker EXCEPT ![w] = [Unengaged EXCEPT !.at = "leased", !.gen = generation,
                                                               !.fence = job'[generation].fence, !.since = t]]

LEMMA LeasesSweep ==
    ASSUME RenderAssumption, RenderTypes, Numbered, NEW w \in Workers, Leases(w)
    PROVE  \E t \in Nat : Swept(w, t)
<1> DEFINE Sweep(f, t) == [g \in 1 .. MaxGeneration |-> IF g # generation /\ Ready(f[g], t) THEN Obsolete(f[g], t) ELSE f[g]]
           Current(f) == IF generation = 0 THEN NoJob ELSE f[generation]
<1>1. PICK t \in Readings(w) :
         /\ worker[w].at = "idle"
         /\ \/ /\ Current(Requeued(t)).state = "leased" /\ Ready(Current(Requeued(t)), t)
               /\ job' = [Sweep(Requeued(t), t) EXCEPT ![generation] = GivenUp(Current(Requeued(t)), t)]
               /\ alert' = [alert EXCEPT ![generation] = "active"] /\ UNCHANGED worker
            \/ /\ Ready(Current(Requeued(t)), t)
               /\ job' = [Sweep(Requeued(t), t) EXCEPT ![generation] = Attempt(Current(Requeued(t)), t)] /\ UNCHANGED alert
               /\ worker' = [worker EXCEPT ![w] = [Unengaged EXCEPT !.at = "leased", !.gen = generation,
                                                             !.fence = Current(Requeued(t)).fence + 1, !.since = t]]
            \/ job' = Sweep(Requeued(t), t) /\ UNCHANGED <<alert, worker>>
         /\ UNCHANGED <<now, generation, due, link, acked, undone>>
  BY Zenon DEF Leases
<1> DEFINE f == Requeued(t)
           s == Sweep(f, t)
           j == Current(f)
<1>2. t \in Nat /\ t <= now /\ now \in Nat
  BY ReadingsType DEF RenderTypes
<1>3. /\ f \in [1 .. MaxGeneration -> Job]
      /\ \A g \in 1 .. MaxGeneration :
            /\ f[g].fence >= job[g].fence /\ (f[g].marker = 0 \/ f[g].marker = job[g].marker)
            /\ f[g] = job[g] \/ (g = generation /\ f[g].state = "queued")
  BY <1>2, RequeuedType
<1>4. \A g \in 1 .. MaxGeneration : f[g].marker <= now /\ job[g].marker \in Nat
  <2> SUFFICES ASSUME NEW g \in 1 .. MaxGeneration PROVE f[g].marker <= now /\ job[g].marker \in Nat
    OBVIOUS
  <2>1. job[g].marker \in Nat /\ job[g].marker <= now
    BY JobTypes DEF Numbered
  <2>2. f[g].marker = 0 \/ f[g].marker = job[g].marker
    BY <1>3
  <2> QED BY <1>2, <2>1, <2>2
<1>5. alert \in [1 .. MaxGeneration -> {"none", "active", "resolved"}] /\ generation \in 0 .. MaxGeneration /\ MaxGeneration \in Nat
  BY DEF RenderTypes, RenderAssumption
<1> HIDE DEF f
<1>6. /\ s \in [1 .. MaxGeneration -> Job]
      /\ \A g \in 1 .. MaxGeneration : s[g].fence >= job[g].fence /\ s[g].marker <= now
      /\ generation # 0 => s[generation] = f[generation]
  <2>1. \A g \in 1 .. MaxGeneration : /\ Obsolete(f[g], t) \in Job /\ Obsolete(f[g], t).fence = f[g].fence
                                      /\ Obsolete(f[g], t).marker <= now
    <3>1. \A g \in 1 .. MaxGeneration : f[g] \in Job
      BY <1>3
    <3>2. \A g \in 1 .. MaxGeneration : /\ Obsolete(f[g], t) \in Job /\ Obsolete(f[g], t).fence = f[g].fence
                                        /\ Obsolete(f[g], t).marker = 0
      BY <1>2, <3>1, ObsoleteType
    <3> QED BY <1>2, <3>2
  <2>2. \A g \in 1 .. MaxGeneration : /\ s[g] \in Job /\ s[g].fence = f[g].fence /\ s[g].marker <= now
                                      /\ (g = generation => s[g] = f[g])
    BY <1>3, <1>4, <2>1
  <2>3. s \in [1 .. MaxGeneration -> Job]
    BY <2>2
  <2> HIDE DEF s
  <2>4. \A g \in 1 .. MaxGeneration : s[g].fence >= job[g].fence /\ s[g].marker <= now
    BY <1>3, <2>2
  <2>5. generation # 0 => s[generation] = f[generation]
    BY <1>5, <2>2
  <2> QED BY <2>3, <2>4, <2>5
<1>7. generation # 0 => generation \in 1 .. MaxGeneration /\ j = f[generation] /\ j \in Job
  BY <1>3, <1>5
<1>8. Ready(j, t) => generation # 0
  BY DEF Ready, NoJob
<1> HIDE DEF s, j, Sweep, Current
<1>9. CASE Ready(j, t) /\ job' = [s EXCEPT ![generation] = GivenUp(j, t)]
           /\ alert' = [alert EXCEPT ![generation] = "active"] /\ UNCHANGED worker
  <2> DEFINE k == GivenUp(j, t)
  <2>1. k \in Job /\ k.state = "failed" /\ k.fence = j.fence /\ k.marker = j.marker
    BY <1>2, <1>7, <1>8, <1>9, GivenUpType
  <2> HIDE DEF k
  <2>2. /\ job' \in [1 .. MaxGeneration -> Job] /\ job'[generation] = k
        /\ \A g \in 1 .. MaxGeneration : g # generation => job'[g] = s[g]
    BY <1>6, <1>7, <1>8, <1>9, <2>1 DEF k
  <2>3. \A g \in 1 .. MaxGeneration : job'[g].fence >= job[g].fence /\ job'[g].marker <= now
    BY <1>3, <1>4, <1>6, <1>7, <1>8, <1>9, <2>1, <2>2
  <2>4. alert' \in [1 .. MaxGeneration -> {"none", "active", "resolved"}] /\ alert'[generation] = "active"
    BY <1>5, <1>7, <1>8, <1>9
  <2> QED BY <1>1, <1>2, <1>9, <2>1, <2>2, <2>3, <2>4 DEF Swept
<1>10. CASE /\ Ready(j, t) /\ job' = [s EXCEPT ![generation] = Attempt(j, t)] /\ UNCHANGED alert
            /\ worker' = [worker EXCEPT ![w] = [Unengaged EXCEPT !.at = "leased", !.gen = generation,
                                                          !.fence = j.fence + 1, !.since = t]]
  <2> DEFINE k == Attempt(j, t)
  <2>1. k \in Job /\ k.state = "leased" /\ k.fence = j.fence + 1 /\ k.marker = t
    BY <1>2, <1>7, <1>8, <1>10 DEF Attempt, Job, RenderAssumption
  <2> HIDE DEF k
  <2>2. /\ job' \in [1 .. MaxGeneration -> Job] /\ job'[generation] = k
        /\ \A g \in 1 .. MaxGeneration : g # generation => job'[g] = s[g]
    BY <1>6, <1>7, <1>8, <1>10, <2>1 DEF k
  <2>3. j.fence \in Nat /\ job[generation].fence \in Nat /\ j.fence >= job[generation].fence
    BY <1>3, <1>7, <1>8, <1>10 DEF RenderTypes, Job
  <2>4. \A g \in 1 .. MaxGeneration : job'[g].fence >= job[g].fence /\ job'[g].marker <= now
    <3> SUFFICES ASSUME NEW g \in 1 .. MaxGeneration PROVE job'[g].fence >= job[g].fence /\ job'[g].marker <= now
      OBVIOUS
    <3>1. CASE g = generation
      <4>1. job'[g] = k /\ k.fence >= job[g].fence
        BY <2>1, <2>2, <2>3, <3>1
      <4>2. k.marker <= now
        BY <1>2, <2>1
      <4> QED BY <4>1, <4>2
    <3>2. CASE g # generation
      BY <1>6, <2>2, <3>2
    <3> QED BY <3>1, <3>2
  <2>5. job'[generation].fence > job[generation].fence /\ job'[generation].fence = j.fence + 1
    BY <2>1, <2>2, <2>3
  <2> QED BY <1>1, <1>2, <1>8, <1>10, <2>1, <2>2, <2>4, <2>5 DEF Swept
<1>11. CASE job' = s /\ UNCHANGED <<alert, worker>>
  <2>1. \/ generation = 0
        \/ job'[generation] = job[generation] /\ alert' = alert
        \/ job'[generation].state = "queued"
    BY <1>3, <1>6, <1>7, <1>11
  <2> QED BY <1>1, <1>2, <1>5, <1>6, <1>11, <2>1 DEF Swept
<1> QED BY <1>1, <1>9, <1>10, <1>11 DEF f, s, j

LEMMA LeasesStep == ASSUME RenderAssumption, RenderInv, NEW w \in Workers, Leases(w) PROVE RenderInv'
<1> USE DEF RenderInv
<1>1. PICK t \in Nat : Swept(w, t)
  BY LeasesSweep
<1>2. /\ job' \in [1 .. MaxGeneration -> Job]
      /\ \A g \in 1 .. MaxGeneration : job'[g].fence >= job[g].fence /\ job'[g].marker <= now
      /\ UNCHANGED <<now, generation, due, link, acked, undone>>
      /\ worker[w].at = "idle"
  BY <1>1 DEF Swept
<1>3. FencesGrow
  <2>1. generation' \in 0 .. MaxGeneration /\ generation' = generation /\ generation \in Nat /\ MaxGeneration \in Nat
    BY <1>2 DEF RenderTypes, RenderAssumption
  <2>2. \A g \in 1 .. MaxGeneration : job'[g] \in Job /\ job[g].fence \in Nat
    BY <1>2, JobTypes
  <2>3. \A j \in Job : j.fence \in Nat
    BY DEF Job
  <2>4. \A g \in 1 .. MaxGeneration : job'[g].fence \in Nat /\ job[g].fence <= job'[g].fence
    BY <1>2, <2>2, <2>3
  <2>5. \A g \in 1 .. generation : g \in 1 .. MaxGeneration
    BY <2>1
  <2> QED BY <2>1, <2>4, <2>5 DEF FencesGrow
<1>4. \A m : Watermark(m)' = Watermark(m)
  BY <1>2 DEF Watermark
<1>5. CASE /\ worker' = worker
           /\ alert' \in [1 .. MaxGeneration -> {"none", "active", "resolved"}]
           /\ \/ generation = 0
              \/ job'[generation] = job[generation] /\ alert' = alert
              \/ job'[generation].state = "queued"
              \/ job'[generation].state = "failed" /\ alert'[generation] = "active"
  <2>1. RenderTypes'
    BY <1>2, <1>5 DEF RenderTypes
  <2>2. Carries
    BY <1>2, <1>5 DEF Carries, Same, Engaged
  <2>3. Numbered'
    BY <1>2, <1>3, <2>1, <2>2, NumbersKept
  <2>4. Quiet
    BY <1>2, <1>5 DEF Quiet, Same, Switched
  <2>5. Dated'
    <3> SUFFICES ASSUME NEW v \in Workers, worker[v].at \in {"built", "active"}, worker[v].gen = generation,
                        job'[generation].state = "leased", worker[v].fence = job'[generation].fence
                 PROVE  worker[v].asof >= job'[generation].marker
      BY <1>2, <1>5 DEF Dated, Holder
    <3>1. generation # 0
      BY DEF Numbered, Engaged
    <3>2. job'[generation] = job[generation]
      BY <1>5, <3>1
    <3> QED BY <3>2 DEF Dated, Holder
  <2>6. Reported'
    <3> SUFFICES ASSUME generation # 0 PROVE Reported'
      BY <1>2 DEF Reported
    <3>1. CASE job'[generation] = job[generation] /\ alert' = alert
      BY <1>2, <1>4, <1>5, <3>1 DEF Reported, Engaged
    <3>2. CASE job'[generation].state = "queued"
      BY <1>2, <3>2 DEF Reported
    <3>3. CASE job'[generation].state = "failed" /\ alert'[generation] = "active"
      BY <1>2, <3>3 DEF Reported
    <3> QED BY <1>5, <3>1, <3>2, <3>3
  <2> QED BY <2>1, <2>3, <2>4, <2>5, <2>6, QuietOrder
<1>6. CASE /\ alert' = alert /\ generation # 0
           /\ job'[generation].state = "leased" /\ job'[generation].fence > job[generation].fence
           /\ worker' = [worker EXCEPT ![w] = [Unengaged EXCEPT !.at = "leased", !.gen = generation,
                                                               !.fence = job'[generation].fence, !.since = t]]
  <2> DEFINE row == [Unengaged EXCEPT !.at = "leased", !.gen = generation, !.fence = job'[generation].fence, !.since = t]
  <2>1. generation \in 1 .. MaxGeneration /\ generation \in Nat
    BY <1>6 DEF RenderTypes
  <2>2. job'[generation].fence \in Nat /\ job[generation].fence \in Nat
    BY <1>2, <2>1 DEF RenderTypes, Job
  <2>3. row = [at |-> "leased", gen |-> generation, fence |-> job'[generation].fence, asof |-> 0, prev |-> Nothing, since |-> t]
    <3> DEFINE a == [Unengaged EXCEPT !.at = "leased"]
               b == [a EXCEPT !.gen = generation]
               c == [b EXCEPT !.fence = job'[generation].fence]
    <3>1. row = [c EXCEPT !.since = t]
      OBVIOUS
    <3>2. a = [at |-> "leased", gen |-> 0, fence |-> 0, asof |-> 0, prev |-> Nothing, since |-> 0]
      BY DEF Unengaged
    <3> HIDE DEF a
    <3>3. b = [at |-> "leased", gen |-> generation, fence |-> 0, asof |-> 0, prev |-> Nothing, since |-> 0]
      BY <3>2
    <3> HIDE DEF b
    <3>4. c = [at |-> "leased", gen |-> generation, fence |-> job'[generation].fence, asof |-> 0, prev |-> Nothing, since |-> 0]
      BY <3>3
    <3> HIDE DEF c, row
    <3> QED BY <3>1, <3>4
  <2>4. /\ row \in Work /\ row.at = "leased" /\ row.gen = generation /\ row.fence = job'[generation].fence
        /\ row.prev = Nothing
    <3> DEFINE f == job'[generation].fence
               r == [at |-> "leased", gen |-> generation, fence |-> f, asof |-> 0, prev |-> Nothing, since |-> t]
    <3>1. f \in Nat
      BY <2>2
    <3>2. Nothing \in Artifacts
      BY DEF Nothing, Artifacts
    <3>3. row = r
      BY <2>3
    <3> HIDE DEF f, row
    <3>4. r \in Work /\ r.at = "leased" /\ r.gen = generation /\ r.fence = f /\ r.prev = Nothing
      BY <2>1, <3>1, <3>2 DEF Work
    <3> QED BY <3>3, <3>4 DEF f
  <2>5. worker'[w] = row /\ \A v \in Workers : v # w => worker'[v] = worker[v]
    BY <1>6, Alone
  <2>6. RenderTypes'
    <3>1. worker' \in [Workers -> Work]
      BY <1>6, <2>4 DEF RenderTypes
    <3> QED BY <1>2, <1>6, <3>1 DEF RenderTypes
  <2> HIDE DEF row
  <2>7. \A v \in Workers : v # w => ~Same(worker[v], row)
    <3> SUFFICES ASSUME NEW v \in Workers, worker[v].gen = generation, worker[v].fence = job'[generation].fence PROVE FALSE
      BY <2>4 DEF Same
    <3>1. Issued(worker[v]) /\ worker[v].fence \in Nat
      BY RankTypes DEF Numbered
    <3> QED BY <1>6, <2>1, <2>2, <3>1 DEF Issued
  <2>8. ~Same(row, acked)
    <3> SUFFICES ASSUME acked.gen = generation, acked.fence = job'[generation].fence PROVE FALSE
      BY <2>4 DEF Same
    <3>1. Issued(acked)
      BY DEF Numbered
    <3> QED BY <1>6, <2>1, <2>2, <3>1, RankTypes DEF Issued
  <2>9. Numbered'
    <3>1. \A a : a.gen \in Nat /\ a.fence \in Nat /\ Issued(a) => IssuedNext(a)
      BY <1>3, IssuedStays
    <3>2. IssuedNext(link) /\ IssuedNext(acked)
      BY <3>1, RankTypes DEF Numbered
    <3>3. \A v \in Workers : IssuedNext(worker[v]) /\ IssuedNext(worker[v].prev)
      BY <3>1, RankTypes DEF Numbered
    <3>4. IssuedNext(row) /\ IssuedNext(row.prev)
      BY <1>2, <2>1, <2>2, <2>4 DEF IssuedNext, Nothing
    <3>5. \A v \in Workers : IssuedNext(worker'[v]) /\ IssuedNext(worker'[v].prev)
      BY <2>5, <3>3, <3>4
    <3>6. \A v \in Workers : worker'[v].at # "idle" => worker'[v].gen # 0
      BY <1>6, <2>4, <2>5 DEF Numbered, Engaged
    <3>7. ASSUME NEW v \in Workers, NEW u \in Workers, worker'[v].at # "idle", worker'[u].at # "idle",
                 Same(worker'[v], worker'[u])
          PROVE  v = u
      <4>1. CASE v = w
        BY <2>5, <2>7, <3>7, <4>1 DEF Same
      <4>2. CASE u = w
        BY <2>5, <2>7, <3>7, <4>2 DEF Same
      <4>3. CASE v # w /\ u # w
        BY <2>5, <3>7, <4>3 DEF Numbered, Engaged
      <4> QED BY <4>1, <4>2, <4>3
    <3>8. \A v \in Workers : worker'[v].at # "idle" => ~Same(worker'[v], acked)
      BY <2>5, <2>8 DEF Numbered, Engaged
    <3> QED BY <1>2, <3>2, <3>5, <3>6, <3>7, <3>8 DEF Numbered, Engaged, Issued, IssuedNext
  <2>10. \A v \in Workers : worker'[v].at \in {"built", "active", "unsure", "refused"} => v # w /\ worker'[v] = worker[v]
    BY <2>4, <2>5
  <2>11. Quiet
    BY <1>2, <2>10 DEF Quiet, Same, Switched
  <2>12. Dated'
    <3> SUFFICES ASSUME NEW v \in Workers, worker'[v].at \in {"built", "active"}, Holder(v)' PROVE FALSE
      BY DEF Dated
    <3>1. v # w /\ worker'[v] = worker[v]
      BY <2>10
    <3> QED BY <1>2, <2>4, <2>7, <3>1 DEF Holder, Same
  <2>13. Reported'
    BY <1>2, <1>6 DEF Reported
  <2> QED BY <2>6, <2>9, <2>11, <2>12, <2>13, QuietOrder
<1> QED BY <1>1, <1>5, <1>6 DEF Swept

LEMMA PublishesStep == ASSUME RenderAssumption, RenderInv, Publishes PROVE RenderInv'
<1> USE DEF RenderInv
<1>1. /\ generation < MaxGeneration /\ generation' = generation + 1
      /\ due' \in SUBSET (1 .. MaxDate)
      /\ job' = [job EXCEPT ![generation + 1] = [NoJob EXCEPT !.state = "queued", !.updated = now]]
      /\ UNCHANGED <<now, alert, link, worker, acked, undone>>
  BY DEF Publishes
<1> DEFINE j == [NoJob EXCEPT !.state = "queued", !.updated = now]
<1>2. j = [state |-> "queued", fence |-> 0, expires |-> 0, marker |-> 0, updated |-> now]
  <2> DEFINE a == [NoJob EXCEPT !.state = "queued"]
  <2>1. j = [a EXCEPT !.updated = now]
    OBVIOUS
  <2>2. a = [state |-> "queued", fence |-> 0, expires |-> 0, marker |-> 0, updated |-> 0]
    BY DEF NoJob
  <2> HIDE DEF a
  <2> QED BY <2>1, <2>2
<1>3. now \in Nat /\ generation \in Nat /\ MaxGeneration \in Nat /\ generation + 1 \in 1 .. MaxGeneration
  BY <1>1 DEF RenderTypes, RenderAssumption
<1>4. j \in Job /\ j.state = "queued" /\ j.marker = 0
  <2> HIDE DEF j
  <2> QED BY <1>2, <1>3 DEF Job
<1>5. job \in [1 .. MaxGeneration -> Job]
  BY DEF RenderTypes
<1> HIDE DEF j
<1>6. /\ job' \in [1 .. MaxGeneration -> Job] /\ job'[generation + 1] = j
      /\ \A g \in 1 .. MaxGeneration : g # generation + 1 => job'[g] = job[g]
  BY <1>1, <1>3, <1>4, <1>5 DEF j
<1>7. RenderTypes'
  BY <1>1, <1>3, <1>6 DEF RenderTypes
<1>8. FencesGrow
  <2>1. generation' \in 0 .. MaxGeneration /\ generation <= generation'
    BY <1>1, <1>3
  <2>2. \A g \in 1 .. generation : g \in 1 .. MaxGeneration /\ job'[g] = job[g] /\ job[g].fence \in Nat
    <3> SUFFICES ASSUME NEW g \in 1 .. generation PROVE g \in 1 .. MaxGeneration /\ job'[g] = job[g] /\ job[g].fence \in Nat
      OBVIOUS
    <3>1. g \in 1 .. MaxGeneration /\ g # generation + 1
      BY <1>3
    <3>2. job[g] \in Job
      BY <1>5, <3>1
    <3> QED BY <1>6, <3>1, <3>2 DEF Job
  <2> QED BY <2>1, <2>2 DEF FencesGrow
<1>9. Numbered'
  <2>1. Carries
    BY <1>1 DEF Carries, Same, Engaged
  <2>2. \A g \in 1 .. MaxGeneration : job'[g].marker <= now'
    <3> SUFFICES ASSUME NEW g \in 1 .. MaxGeneration PROVE job'[g].marker <= now
      BY <1>1
    <3>1. CASE g = generation + 1
      BY <1>3, <1>4, <1>6, <3>1
    <3>2. CASE g # generation + 1
      BY <1>6, <3>2 DEF Numbered
    <3> QED BY <3>1, <3>2
  <2> QED BY <1>7, <1>8, <2>1, <2>2, NumbersKept
<1>10. Quiet
  BY <1>1 DEF Quiet, Same, Switched
<1>11. job'[generation'].state = "queued"
  BY <1>1, <1>4, <1>6
<1>12. Dated' /\ Reported'
  BY <1>11 DEF Dated, Holder, Reported
<1> QED BY <1>7, <1>9, <1>10, <1>12, QuietOrder

----------------------------------------------------------------------------
(* Theorems *)

LEMMA RenderInitInv == ASSUME RenderAssumption, RenderInit PROVE RenderInv
<1>1. NoJob \in Job /\ NoJob.marker = 0 /\ Nothing \in Artifacts /\ Nothing.gen = 0 /\ Nothing.fence = 0
  BY DEF NoJob, Job, Nothing, Artifacts
<1>2. MaxGeneration \in Nat /\ 0 \in 0 .. MaxGeneration
  BY DEF RenderAssumption
<1>3. /\ now = 1 /\ generation = 0 /\ due = {} /\ link = Nothing
      /\ job = [g \in 1 .. MaxGeneration |-> NoJob] /\ alert = [g \in 1 .. MaxGeneration |-> "none"]
      /\ worker = [w \in Workers |-> Unengaged] /\ acked = [gen |-> 0, fence |-> 0]
  BY DEF RenderInit
<1>4. Unengaged.gen = 0 /\ Unengaged.fence = 0 /\ Unengaged.prev = Nothing
  BY DEF Unengaged
<1>5. RenderTypes
  BY <1>1, <1>2, <1>3, UnengagedType DEF RenderTypes
<1>6. \A a : a.gen = 0 /\ a.fence = 0 => Issued(a)
  BY <1>3 DEF Issued
<1>7. \A w \in Workers : worker[w] = Unengaged /\ worker[w].at = "idle"
  BY <1>3, UnengagedType
<1>8. Numbered
  BY <1>1, <1>3, <1>4, <1>6, <1>7 DEF Numbered, Engaged
<1>9. InOrder
  BY <1>1, <1>3, <1>7 DEF InOrder, Switched, Newer
<1>10. Twins /\ Dated /\ Reported
  BY <1>3, <1>7 DEF Twins, Dated, Reported, Switched
<1> QED BY <1>5, <1>8, <1>9, <1>10 DEF RenderInv

LEMMA RenderStep == ASSUME RenderAssumption, RenderInv, [RenderNext]_renderVars PROVE RenderInv'
<1>1. CASE UNCHANGED renderVars
  <2>1. RenderTypes' /\ Numbered' /\ InOrder' /\ Twins' /\ Dated'
    BY <1>1 DEF renderVars, RenderInv, RenderTypes, Numbered, Issued, Engaged, InOrder, Switched, Twins, Dated, Holder
  <2>2. \A m : Watermark(m)' = Watermark(m)
    BY <1>1 DEF renderVars, Watermark
  <2>3. Reported'
    BY <1>1, <2>2 DEF renderVars, RenderInv, Reported, Engaged
  <2> QED BY <2>1, <2>3 DEF RenderInv
<1>2. CASE Publishes
  BY <1>2, PublishesStep
<1>3. CASE Ticks
  BY <1>3, TicksStep
<1>4. ASSUME NEW w \in Workers, RenderOnce(w) \/ RenewsLease(w) \/ WorkerDies(w) PROVE RenderInv'
  BY <1>4, LeasesStep, ProjectsStep, ActivatesStep, CompletesJobStep, CompleteRefusedStep, RollsBackStep, FailsStep,
     RenewsLeaseStep, WorkerDiesStep DEF RenderOnce
<1> QED BY <1>1, <1>2, <1>3, <1>4 DEF RenderNext

\* Every reachable state satisfies the invariant: fences are one worker's own, the link is at least what anyone
\* switched it to or was told, and the state of the current job says what is served.
THEOREM RenderInvariant == RenderSpec => []RenderInv
<1>1. RenderInit => RenderInv
  BY RenderAssumption, RenderInitInv
<1>2. RenderInv /\ [RenderNext]_renderVars => RenderInv'
  BY RenderAssumption, RenderStep
<1> QED BY <1>1, <1>2, PTL DEF RenderSpec

\* A render whose completion was told is never followed by an older one on the served link, whatever workers with
\* expired leases, rollbacks and crashes do (public_render_artifact.go:194, 243).
THEOREM RenderAckedStays == RenderSpec => []AckedStays
<1>1. RenderInv => AckedStays
  BY DEF RenderInv, InOrder, AckedStays
<1> QED BY <1>1, RenderInvariant, PTL

\* A site reported healthy serves the current generation with every announcement in effect when its render was
\* completed, unless a worker that was not told took the render back; a failure has its alert up
\* (public_render_job.go:512).
THEOREM RenderHealthyIsServed == RenderSpec => []HealthyIsServed
<1>1. RenderInv => HealthyIsServed
  <2> SUFFICES ASSUME RenderInv PROVE HealthyIsServed
    OBVIOUS
  <2>1. generation # 0 => job[generation].marker \in Nat
    BY DEF RenderInv, RenderTypes, Job
  <2> QED BY <2>1 DEF RenderInv, Reported, HealthyIsServed, Healthy
<1> QED BY <1>1, RenderInvariant, PTL
=============================================================================
